---- MODULE Spec2Model ----
(***************************************************************************)
(* TokyoGTFS: block (through-service) resolution, time normalisation,      *)
(* calendars and block simplification.                                     *)
(*                                                                         *)
(* Each part of the repository that is modelled has its own specification  *)
(* over the shared variables:                                              *)
(*   SpecOdpt  static/rail/providers/odpt.py   ODPTProvider.trains         *)
(*   SpecGB    tokyo_gtfs/rail/generate_blocks.py   GenerateBlocks         *)
(*   SpecBS    static/rail/blocksolver.py + main.py   one BlockSolver      *)
(*   SpecMain  static/rail/blocksolver.py + main.py   two BlockSolvers     *)
(*   SpecMt    tokyo_gtfs/rail/load_schedules.py   load_train_timetable    *)
(*   SpecBus   static/bus/providers.py   ODPTProvider.trips                *)
(*   SpecCal   static/other.py + bus/converter.py   CalendarHandler,       *)
(*             cleanup_trips_without_service                               *)
(*   SpecSb    tokyo_gtfs/rail/simplify_blocks.py   SimplifyBlocks         *)
(*   SpecSbPairs   the same, blocks with two trips of each route           *)
(*   SpecMerge tokyo_gtfs/rail/simplify_blocks.py   get_merged_stop_times  *)
(*   SpecFix   tokyo_gtfs/rail/generate_blocks.py   fix_link_consistency   *)
(*   SpecHash  static/rail/blocksolver.py   matching on StopTimeHash       *)
(*   SpecSuffixed  generate_blocks.py, a trip id that ends in ".2"         *)
(***************************************************************************)
EXTENDS Integers, Sequences, FiniteSets, TLC

VARIABLES
    \* ---- static/rail/providers/odpt.py: ODPTProvider.trains (one train)
    api_tt,        \* odpt:trainTimetableObject entries consumed so far
    timetable,     \* model_train.timetable built so far
    prev_dep       \* local prev_dep of the conversion loop

VARIABLES
    \* ---- tokyo_gtfs/rail/generate_blocks.py: GenerateBlocks
    node,          \* the BlockNode objects by trip_id (values of to_process)
    to_process,    \* keys of self.to_process, in dict (insertion) order
    counter,       \* self.counter
    trips,         \* the trips table: trip_id -> block_id
    gb_pc,         \* position of execute: "run", "done" or the exception
    gb_last        \* what the last solve() call found (root, component, blocks)

VARIABLES
    \* ---- static/rail/main.py, mux.py, blocksolver.py: BlockSolver
    feed,          \* the trains the providers yield, by train id
    solver,        \* block_solvers: group name -> BlockSolver fields
    main_pc,       \* position of create_gtfs
    cur,           \* index of the solver being solved
    exported,      \* trips.txt: train id -> block ids written for it
    bs_last,       \* what the last solve_train call did
    node_count     \* BlockNode objects created per train over the run

VARIABLES
    \* ---- the timetable loaders: tokyo_gtfs/rail/load_schedules.py
    \* load_train_timetable, static/bus/providers.py ODPTProvider.trips
    trip_no,       \* number of the trip being loaded
    is_midnight,   \* odpt:isMidnight of the trip
    tt,            \* the timetable entries of the trip consumed so far
    stop_times,    \* the StopTime objects made for the trip so far
    previous_dep,  \* local previous_dep / previous_departure
    load_pc        \* position of the loader: "run" or the exception

VARIABLES
    \* ---- static/other.py CalendarHandler, static/bus/converter.py
    start,         \* weekday of self.start (Monday is 0)
    holidays,      \* self.holidays
    valid,         \* self.valid
    special,       \* self.special: date -> calendar ids
    used,          \* self.used: route id -> calendar ids
    rows,          \* the calendar_dates.txt rows saved by export
    trip_feed,     \* the trips the providers yield
    trip_i,        \* number of trips export_trips has taken
    exported_trips,            \* indices of the trips written to trips.txt
    stop_times_txt,            \* stop_times.txt: <<trip, stop_sequence>> rows
    removed_trips_by_agency    \* Converter.removed_trips_by_agency

VARIABLES
    \* ---- tokyo_gtfs/rail/simplify_blocks.py: SimplifyBlocks
    sb_trips,       \* the trips table: trip -> its row
    sb_stop_times,  \* the stop_times table: trip -> its rows by stop_sequence
    sb_blocks,      \* blocks: what find_blocks_to_merge returned to the last execute
    sb_runs         \* number of execute calls made

VARIABLES
    \* ---- simplify_blocks.py: one call of get_merged_stop_times
    merge_trip_id,  \* trip_id: the id of the base trip
    merge_in,       \* the stop_times of the trips, chained
    merge_out       \* the stop_times yielded, or NotCalled

odptVars == <<api_tt, timetable, prev_dep>>

calVars == <<start, holidays, valid, special, used, rows, trip_feed, trip_i,
             exported_trips, stop_times_txt, removed_trips_by_agency>>

sbVars == <<sb_trips, sb_stop_times, sb_blocks, sb_runs>>

mgVars == <<merge_trip_id, merge_in, merge_out>>

ldVars == <<trip_no, is_midnight, tt, stop_times, previous_dep, load_pc>>

bsVars == <<feed, solver, main_pc, cur, exported, bs_last, node_count>>

gbVars == <<node, to_process, counter, trips, gb_pc, gb_last>>

vars == <<api_tt, timetable, prev_dep,
          node, to_process, counter, trips, gb_pc, gb_last,
          feed, solver, main_pc, cur, exported, bs_last, node_count,
          trip_no, is_midnight, tt, stop_times, previous_dep, load_pc,
          start, holidays, valid, special, used, rows, trip_feed, trip_i, exported_trips, removed_trips_by_agency,
          sb_trips, sb_stop_times, sb_blocks, sb_runs,
          merge_trip_id, merge_in, merge_out>>


(***************************************************************************)
(* Sequence helpers                                                        *)
(***************************************************************************)
Range(s) == {s[i] : i \in 1..Len(s)}

Last(s) == s[Len(s)]

Front(s) == SubSeq(s, 1, Len(s) - 1)

\* list.remove(x) / del dict[x] on a list of distinct keys
Remove(s, x) == SelectSeq(s, LAMBDA y : y # x)

Reverse(s) == [i \in 1..Len(s) |-> s[Len(s) + 1 - i]]

\* All orders in which the elements of a finite set can be listed.
RECURSIVE Perms(_)
Perms(S) ==
    IF S = {} THEN {<<>>}
    ELSE UNION {{<<x>> \o p : p \in Perms(S \ {x})} : x \in S}

(***************************************************************************)
(* static/rail/providers/odpt.py                                           *)
(***************************************************************************)
\* Number of timetable objects of one train.
MaxStops == 3
\* The wall-clock strings offered as inputs: 00:00, 12:30, 24:00, ...
MaxHalfDays == 2

\* An "HH:MM" string is modelled by the pair <<HH, MM>> of the integers its
\* two fields parse to; a missing (or empty) string is NoTime.
NoTime == <<>>

TimeStrings == {<<12 * k, 30 * (k % 2)>> : k \in 0..MaxHalfDays}

OptTimeStrings == TimeStrings \cup {NoTime}

\* api_time_to_int: "HH:MM" -> h*3600 + m*60
api_time_to_int(api_time) == api_time[1] * 3600 + api_time[2] * 60

\* get_arr_dep_times: <<arr, dep>> of one timetable object
get_arr_dep_times(o) ==
    IF o.arrivalTime # NoTime /\ o.departureTime # NoTime
    THEN <<api_time_to_int(o.arrivalTime), api_time_to_int(o.departureTime)>>
    ELSE IF o.arrivalTime # NoTime
    THEN <<api_time_to_int(o.arrivalTime), api_time_to_int(o.arrivalTime)>>
    ELSE IF o.departureTime # NoTime
    THEN <<api_time_to_int(o.departureTime), api_time_to_int(o.departureTime)>>
    ELSE <<-1, -1>>

\* Mutant: "if x < bound: x += 86400" (one day at most).
AddDayIfBelow(x, bound) == IF x < bound THEN x + 86400 ELSE x

\* "while x < bound: x += 86400"
RECURSIVE AddDaysWhileBelow(_, _)
AddDaysWhileBelow(x, bound) ==
    IF x < bound THEN AddDaysWhileBelow(x + 86400, bound) ELSE x

\* The midnight fix of one entry: <<arr, dep, new prev_dep>>
FixMidnight(arr, dep, pd) ==
    IF arr >= 0 /\ dep >= 0
    THEN LET a == AddDaysWhileBelow(arr, pd)
             d == AddDaysWhileBelow(dep, a)
         IN  <<a, d, d>>
    ELSE <<arr, dep, pd>>

OdptInit ==
    /\ api_tt = <<>>
    /\ timetable = <<>>
    /\ prev_dep = 0

OdptIdle == OdptInit

\* One iteration of "for api_tt_obj in api_train[odpt:trainTimetableObject]"
OdptTimetableObject ==
    /\ Len(api_tt) < MaxStops
    /\ \E a \in OptTimeStrings, d \in OptTimeStrings :
         LET o   == [arrivalTime |-> a, departureTime |-> d]
             ad  == get_arr_dep_times(o)
             fix == FixMidnight(ad[1], ad[2], prev_dep)
         IN  /\ api_tt' = Append(api_tt, o)
             /\ timetable' = Append(timetable,
                    [arrival |-> fix[1], departure |-> fix[2]])
             /\ prev_dep' = fix[3]
    /\ UNCHANGED <<gbVars, bsVars, ldVars, calVars, sbVars, mgVars>>

OdptNext == OdptTimetableObject

(***************************************************************************)
(* tokyo_gtfs/rail/generate_blocks.py                                      *)
(***************************************************************************)
\* Number of trips in the trips table, and of links between them.
NTrips == 4
MaxLinks == 4

TripIds == 1..NTrips

\* A link a -> b: b is in a.next and a is in b.previous.
LinkPairs == {p \in TripIds \X TripIds : p[1] # p[2]}

\* All sets of at most k of the given pairs.
RECURSIVE SetsOfAtMost(_, _)
SetsOfAtMost(pairs, k) ==
    IF k = 0 THEN {{}}
    ELSE LET smaller == SetsOfAtMost(pairs, k - 1)
         IN  smaller \cup {S \cup {p} : S \in smaller, p \in pairs}

LinkSets(k) == SetsOfAtMost(LinkPairs, k)

\* All ways to give each trip of T a list from choices[t].
RECURSIVE ListChoices(_, _)
ListChoices(T, choices) ==
    IF T = {} THEN {<<>>}
    ELSE LET t == CHOOSE x \in T : TRUE
         IN  {(t :> l) @@ f : l \in choices[t], f \in ListChoices(T \ {t}, choices)}

\* The trip id that id + ".k" spells: ids are numbers and the suffix is
\* appended as a further decimal digit.
CloneId(id, k) == id * 10 + k

NoBlock == -1
NoExc == "none"

\* BlockNode(trip_id, destinations, previous, next, clone_with_suffix); the
\* suffix ".k" is modelled by the number k and the empty suffix by 0.
BlockNode(id, dest, prev, next) ==
    [trip_id |-> id, destinations |-> dest, previous |-> prev, next |-> next,
     clone_with_suffix |-> 0]

\* The record of one solve() call: its root, the keys of linked_nodes in
\* dict order, whether find_all_blocks was called, its blocks, the exception
\* that ended the call, and the nodes as the call left them.
SolveRecord(root, visited, found, blocks, exc, nd) ==
    [root |-> root, visited |-> visited, found |-> found, blocks |-> blocks,
     exc |-> exc, node |-> nd]

NoSolve == SolveRecord(0, <<>>, FALSE, <<>>, NoExc, <<>>)

\* The state execute() starts solving from: find_all_nodes has loaded the
\* nodes and fix_link_consistency has made the links closed and symmetric;
\* the order of each list and of the dict itself is that of the table. The
\* dict order is fixed to 1..NTrips: the links range over all labelled
\* graphs, so every position of the last key in its component occurs.
GBInit ==
    /\ \E E \in LinkSets(MaxLinks) :
         \E nx \in ListChoices(TripIds,
                     [t \in TripIds |-> Perms({b \in TripIds : <<t, b>> \in E})]),
            pv \in ListChoices(TripIds,
                     [t \in TripIds |-> Perms({a \in TripIds : <<a, t>> \in E})]) :
            node = [t \in TripIds |-> BlockNode(t, <<t>>, pv[t], nx[t])]
    /\ to_process = [i \in 1..NTrips |-> i]
    /\ counter = 0
    /\ trips = [t \in TripIds |-> NoBlock]
    /\ gb_pc = "run"
    /\ gb_last = NoSolve

\* Trip ids of a table in which one id is another id with ".2" appended:
\* the loader takes ids that end in the calendar and ids with one more
\* part after the calendar.
SuffixedTripIds == (1..(NTrips - 1)) \cup {CloneId(1, 2)}

\* As GBInit, over a table with the ids SuffixedTripIds, in that dict order
\* or with the suffixed id first.
SuffixedInit ==
    /\ \E E \in SetsOfAtMost({p \in SuffixedTripIds \X SuffixedTripIds : p[1] # p[2]},
                             MaxLinks - 1) :
         \E nx \in ListChoices(SuffixedTripIds,
                     [t \in SuffixedTripIds |->
                        Perms({b \in SuffixedTripIds : <<t, b>> \in E})]),
            pv \in ListChoices(SuffixedTripIds,
                     [t \in SuffixedTripIds |->
                        Perms({a \in SuffixedTripIds : <<a, t>> \in E})]) :
            node = [t \in SuffixedTripIds |-> BlockNode(t, <<t>>, pv[t], nx[t])]
    /\ to_process \in {[i \in 1..(NTrips - 1) |-> i] \o <<CloneId(1, 2)>>,
                       <<CloneId(1, 2)>> \o [i \in 1..(NTrips - 1) |-> i]}
    /\ counter = 0
    /\ trips = [t \in SuffixedTripIds |-> NoBlock]
    /\ gb_pc = "run"
    /\ gb_last = NoSolve

GBIdle ==
    /\ node = <<>>
    /\ to_process = <<>>
    /\ counter = 0
    /\ trips = <<>>
    /\ gb_pc = "done"
    /\ gb_last = NoSolve

\* Mutant: chain(node.previous, node.next)
LinkedIdsPreviousFirst(n) == n.previous \o n.next

\* chain(node.next, node.previous)
LinkedIds(n) == n.next \o n.previous

\* The for-loop of find_all_linked_nodes over the links of one node.
RECURSIVE QueueLinked(_, _, _, _)
QueueLinked(links, visited, queue, tp) ==
    IF links = <<>> THEN [queue |-> queue, tp |-> tp, exc |-> NoExc]
    ELSE IF Head(links) \in Range(visited)
    THEN QueueLinked(Tail(links), visited, queue, tp)
    ELSE IF Head(links) \notin Range(tp)
    THEN [queue |-> queue, tp |-> tp, exc |-> "KeyError"]
    ELSE QueueLinked(Tail(links), visited, Append(queue, Head(links)),
                     Remove(tp, Head(links)))

\* find_all_linked_nodes: the while-loop, from a queue; visited is the list
\* of keys of the visited dict in insertion order.
RECURSIVE find_all_linked_nodes(_, _, _, _)
find_all_linked_nodes(nd, visited, queue, tp) ==
    IF queue = <<>> THEN [visited |-> visited, tp |-> tp, exc |-> NoExc]
    ELSE LET n == Last(queue)
             r == QueueLinked(LinkedIds(nd[n]), visited, Front(queue), tp)
         IN  IF r.exc # NoExc
             THEN [visited |-> visited, tp |-> r.tp, exc |-> r.exc]
             ELSE find_all_linked_nodes(nd,
                      IF n \in Range(visited) THEN visited ELSE Append(visited, n),
                      r.queue, r.tp)

\* _find_forks: the nodes with several next, then those with several previous
find_forks(nd, keys) ==
    SelectSeq(keys, LAMBDA k : Len(nd[k].next) > 1)
        \o SelectSeq(keys, LAMBDA k : Len(nd[k].previous) > 1)

\* _find_linked_forward: the ids walked, or the exception
RECURSIVE find_linked_forward(_, _, _, _)
find_linked_forward(nd, keys, tail, visited) ==
    LET v == Append(visited, tail)
        nx == nd[tail].next
    IN  IF Len(nx) = 0 THEN [leg |-> v, exc |-> NoExc]
        ELSE IF Len(nx) = 1
        THEN IF nx[1] \notin Range(keys) THEN [leg |-> v, exc |-> "KeyError"]
             ELSE IF nd[nx[1]].previous # <<tail>>
             THEN [leg |-> v, exc |-> "AssertionError"]
             ELSE find_linked_forward(nd, keys, nx[1], v)
        ELSE [leg |-> v, exc |-> "ValueError"]

\* _find_linked_backward (before its final reverse)
RECURSIVE find_linked_backward_walk(_, _, _, _)
find_linked_backward_walk(nd, keys, head, visited) ==
    LET v == Append(visited, head)
        pv == nd[head].previous
    IN  IF Len(pv) = 0 THEN [leg |-> v, exc |-> NoExc]
        ELSE IF Len(pv) = 1
        THEN IF pv[1] \notin Range(keys) THEN [leg |-> v, exc |-> "KeyError"]
             ELSE IF nd[pv[1]].next # <<head>>
             THEN [leg |-> v, exc |-> "AssertionError"]
             ELSE find_linked_backward_walk(nd, keys, pv[1], v)
        ELSE [leg |-> v, exc |-> "ValueError"]

find_linked_backward(nd, keys, first) ==
    LET r == find_linked_backward_walk(nd, keys, first, <<>>)
    IN  [leg |-> Reverse(r.leg), exc |-> r.exc]

\* The first exception among the results of a list of calls, in call order.
FirstExc(rs) ==
    IF \E i \in 1..Len(rs) : rs[i].exc # NoExc
    THEN rs[CHOOSE i \in 1..Len(rs) :
                /\ rs[i].exc # NoExc
                /\ \A j \in 1..(i - 1) : rs[j].exc = NoExc].exc
    ELSE NoExc

\* Mutant: every leg's trunk copy gets a suffix, the first too.
CloneSuffixAlways(idx) == idx

\* The clone suffix of the idx-th leg: f".{idx}" if idx != 1 else ""
CloneSuffix(idx) == IF idx # 1 THEN idx ELSE 0

\* Mutant: every block takes the destinations of the last trunk node
LegBlockTrunkDestinations(nd, is_split, shared_leg, unique_leg, idx) ==
    LET destinations == nd[Last(shared_leg)].destinations
        suffix == CloneSuffix(idx)
        copy == [i \in 1..Len(shared_leg) |->
                    [nd[shared_leg[i]] EXCEPT !.destinations = destinations,
                                              !.clone_with_suffix = suffix]]
        nd2 == [t \in DOMAIN nd |->
                    IF t \in Range(unique_leg)
                    THEN [nd[t] EXCEPT !.destinations = destinations]
                    ELSE nd[t]]
        uniq == [i \in 1..Len(unique_leg) |-> nd2[unique_leg[i]]]
    IN  [nd |-> nd2,
         block |->
            IF is_split
            THEN [copy EXCEPT ![Len(copy)].next = <<unique_leg[1]>>] \o uniq
            ELSE uniq \o [copy EXCEPT ![1].previous = <<Last(unique_leg)>>]]

\* One iteration of the loop of _assign_blocks_around_fork over unique_legs:
\* the block of leg number idx, and the nodes with the leg's destinations fixed.
LegBlock(nd, is_split, shared_leg, unique_leg, idx) ==
    LET destinations ==
            IF is_split THEN nd[Last(unique_leg)].destinations
            ELSE nd[Last(shared_leg)].destinations
        suffix == CloneSuffix(idx)
        copy == [i \in 1..Len(shared_leg) |->
                    [nd[shared_leg[i]] EXCEPT !.destinations = destinations,
                                              !.clone_with_suffix = suffix]]
        nd2 == [t \in DOMAIN nd |->
                    IF t \in Range(unique_leg)
                    THEN [nd[t] EXCEPT !.destinations = destinations]
                    ELSE nd[t]]
        uniq == [i \in 1..Len(unique_leg) |-> nd2[unique_leg[i]]]
    IN  [nd |-> nd2,
         block |->
            IF is_split
            THEN [copy EXCEPT ![Len(copy)].next = <<unique_leg[1]>>] \o uniq
            ELSE uniq \o [copy EXCEPT ![1].previous = <<Last(unique_leg)>>]]

RECURSIVE LegBlocks(_, _, _, _, _, _)
LegBlocks(nd, is_split, shared_leg, unique_legs, idx, blocks) ==
    IF idx > Len(unique_legs) THEN [nd |-> nd, blocks |-> blocks]
    ELSE LET r == LegBlock(nd, is_split, shared_leg, unique_legs[idx], idx)
         IN  LegBlocks(r.nd, is_split, shared_leg, unique_legs, idx + 1,
                       Append(blocks, r.block))

\* _assign_blocks_around_fork
assign_blocks_around_fork(nd, keys, fork) ==
    LET f == nd[fork]
        is_split == ~(Len(f.previous) > 1)
        shared == IF is_split THEN find_linked_backward(nd, keys, fork)
                  ELSE find_linked_forward(nd, keys, fork, <<>>)
        starts == IF is_split THEN f.next ELSE f.previous
        legs == [i \in 1..Len(starts) |->
                    IF starts[i] \notin Range(keys)
                    THEN [leg |-> <<>>, exc |-> "KeyError"]
                    ELSE IF is_split
                    THEN find_linked_forward(nd, keys, starts[i], <<>>)
                    ELSE find_linked_backward(nd, keys, starts[i])]
        exc == IF ~(Len(f.next) > 1 \/ Len(f.previous) > 1) THEN "AssertionError"
               ELSE IF ~(Len(f.next) <= 1 \/ Len(f.previous) <= 1) THEN "AssertionError"
               ELSE FirstExc(<<shared>> \o legs)
    IN  IF exc # NoExc THEN [blocks |-> <<>>, exc |-> exc, nd |-> nd]
        ELSE LET r == LegBlocks(nd, is_split, shared.leg,
                                [i \in 1..Len(legs) |-> legs[i].leg], 1, <<>>)
             IN  [blocks |-> r.blocks, exc |-> NoExc, nd |-> r.nd]

\* Mutant: any number of forks is resolved around the first one.
find_all_blocks_first_fork(nd, keys) ==
    LET forks == find_forks(nd, keys)
    IN  IF Len(forks) = 0
        THEN [blocks |-> <<[i \in 1..Len(keys) |-> nd[keys[i]]]>>,
              exc |-> NoExc, nd |-> nd]
        ELSE assign_blocks_around_fork(nd, keys, forks[1])

\* find_all_blocks(nodes): keys is the order of the dict nodes
find_all_blocks(nd, keys) ==
    LET forks == find_forks(nd, keys)
    IN  IF Len(forks) = 0
        THEN [blocks |-> <<[i \in 1..Len(keys) |-> nd[keys[i]]]>>,
              exc |-> NoExc, nd |-> nd]
        ELSE IF Len(forks) = 1
        THEN assign_blocks_around_fork(nd, keys, forks[1])
        ELSE [blocks |-> <<>>, exc |-> NoExc, nd |-> nd]

\* assign_blocks: the trips table after writing block ids from counter c
\* on. _clone_trip inserts a row under the clone id; trip_id is the key of
\* the table, so the INSERT of an id that is in the table already ends
\* the call with an IntegrityError.
RECURSIVE assign_blocks(_, _, _)
assign_blocks(tr, blocks, c) ==
    IF blocks = <<>> THEN [trips |-> tr, exc |-> NoExc]
    ELSE LET block == Head(blocks)
             clones == {CloneId(block[i].trip_id, block[i].clone_with_suffix) :
                            i \in {j \in 1..Len(block) : block[j].clone_with_suffix # 0}}
             ids == clones \cup
                    {block[i].trip_id :
                        i \in {j \in 1..Len(block) : block[j].clone_with_suffix = 0}}
         IN  IF clones \cap DOMAIN tr # {}
             THEN [trips |-> tr, exc |-> "IntegrityError"]
             ELSE assign_blocks([t \in DOMAIN tr \cup ids |->
                                    IF t \in ids THEN c ELSE tr[t]],
                                Tail(blocks), c + 1)

\* solve(db, root) for root = to_process.popitem()[1]: one iteration of the
\* loop of execute. An exception leaves the loop and the transaction.
Solve ==
    /\ gb_pc = "run"
    /\ to_process # <<>>
    /\ LET root == Last(to_process)
           lk == find_all_linked_nodes(node, <<>>, <<root>>, Front(to_process))
       IN  IF lk.exc # NoExc
           THEN /\ gb_pc' = lk.exc
                /\ gb_last' = SolveRecord(root, lk.visited, FALSE, <<>>, lk.exc, node)
                /\ trips' = [t \in DOMAIN node |-> NoBlock]
                /\ UNCHANGED <<node, to_process, counter>>
           ELSE IF Len(lk.visited) <= 1
           THEN /\ to_process' = lk.tp
                /\ gb_last' = SolveRecord(root, lk.visited, FALSE, <<>>, NoExc, node)
                /\ UNCHANGED <<node, counter, trips, gb_pc>>
           ELSE LET fb == find_all_blocks(node, lk.visited)
                IN  /\ gb_last' = SolveRecord(root, lk.visited, TRUE, fb.blocks,
                                               fb.exc, fb.nd)
                    /\ IF fb.exc # NoExc
                       THEN /\ gb_pc' = fb.exc
                            /\ trips' = [t \in DOMAIN node |-> NoBlock]
                            /\ UNCHANGED <<node, to_process, counter>>
                       ELSE \E ab \in {assign_blocks(trips, fb.blocks, counter)} :
                              IF ab.exc # NoExc
                              THEN /\ gb_pc' = ab.exc
                                   /\ trips' = [t \in DOMAIN node |-> NoBlock]
                                   /\ UNCHANGED <<node, to_process, counter>>
                              ELSE /\ to_process' = lk.tp
                                   /\ trips' = ab.trips
                                   /\ counter' = counter + Len(fb.blocks)
                                   /\ UNCHANGED <<node, gb_pc>>
    /\ UNCHANGED <<odptVars, bsVars, ldVars, calVars, sbVars, mgVars>>

\* The loop of execute ends when to_process is empty.
ExecuteDone ==
    /\ gb_pc = "run"
    /\ to_process = <<>>
    /\ gb_pc' = "done"
    /\ UNCHANGED <<node, to_process, counter, trips, gb_last>>
    /\ UNCHANGED <<odptVars, bsVars, ldVars, calVars, sbVars, mgVars>>

GBNext == Solve \/ ExecuteDone

(***************************************************************************)
(* static/rail/blocksolver.py, mux.py, main.py                             *)
(***************************************************************************)
\* Number of trains the providers yield, and of links they declare.
NTrains == 4
MaxBSLinks == 3
\* Number of links declared along with a train that has is_first or is_last.
MaxFlaggedLinks == 1
TrainIds == 1..NTrains
\* ignore_train = ""
NoTrain == 0

\* The through-service groups, in the order of block_solvers.values().
Groups == <<"G", "H">>

\* Optional[List[TrainID]]: None is <<>>, the list l is <<l>>.
NoList == <<>>
SomeList(l) == <<l>>

\* TrainShort.from_model with the fields the solver reads; long stands for
\* len(train.timetable) > 1. A None is_first is False wherever it is read.
TrainShort(id, group, is_first, is_last, prev, next, first_sta, last_sta, long) ==
    [id |-> id, group |-> group, is_first |-> is_first, is_last |-> is_last,
     prev |-> prev, next |-> next, first_sta |-> first_sta,
     last_sta |-> last_sta, long |-> long]

\* Mutant: "self.block_id = 0"
NewSolverFromZero(prefix) ==
    [prefix |-> prefix,
     trains_by_id |-> <<>>,
     trains_by_first_sta |-> [h \in {} |-> <<>>],
     trains_by_last_sta |-> [h \in {} |-> <<>>],
     block_id |-> 0,
     blocks |-> [t \in {} |-> <<>>]]

\* BlockSolver.__init__
NewSolver(prefix) ==
    [prefix |-> prefix,
     trains_by_id |-> <<>>,
     trains_by_first_sta |-> [h \in {} |-> <<>>],
     trains_by_last_sta |-> [h \in {} |-> <<>>],
     block_id |-> 1,
     blocks |-> [t \in {} |-> <<>>]]

\* defaultdict(list)[key], and dict.get(key) read as a list
ListAt(d, key) == IF key \in DOMAIN d THEN d[key] ELSE <<>>

\* d[key] = value
Put(d, key, value) == [k \in DOMAIN d \cup {key} |-> IF k = key THEN value ELSE d[k]]

\* del d[key]
Del(d, key) == [k \in DOMAIN d \ {key} |-> d[k]]

\* add_train
add_train(s, train) ==
    IF train.is_first /\ train.is_last THEN s
    ELSE LET s1 == [s EXCEPT !.trains_by_id =
                        IF train.id \in Range(@) THEN @ ELSE Append(@, train.id)]
         IN  IF train.long
             THEN [s1 EXCEPT
                     !.trains_by_first_sta =
                         Put(@, train.first_sta, Append(ListAt(@, train.first_sta), train.id)),
                     !.trains_by_last_sta =
                         Put(@, train.last_sta, Append(ListAt(@, train.last_sta), train.id))]
             ELSE s1

\* drop_train on one of the two signature indices
DropFromIndex(d, key, id) ==
    IF Len(ListAt(d, key)) = 1 THEN Del(d, key)
    ELSE Put(d, key, Remove(ListAt(d, key), id))

\* Mutant: "del self.trains_by_id[train.id]" left out
drop_train_from_indices(s, train) ==
    [s EXCEPT !.trains_by_first_sta = DropFromIndex(@, train.first_sta, train.id),
              !.trains_by_last_sta = DropFromIndex(@, train.last_sta, train.id)]

\* drop_train
drop_train(s, train) ==
    [s EXCEPT !.trains_by_id = Remove(@, train.id),
              !.trains_by_first_sta = DropFromIndex(@, train.first_sta, train.id),
              !.trains_by_last_sta = DropFromIndex(@, train.last_sta, train.id)]

\* The ids found for a train that is not first/last: its own list if it has
\* one, else the one train with the matching signature, if there is one only.
MatchedTrains(declared, hashes) ==
    IF declared # NoList THEN declared[1]
    ELSE IF Len(hashes) = 1 THEN hashes
    ELSE <<>>

\* previous_trains
previous_trains(s, train) ==
    IF train.is_first THEN <<>>
    ELSE MatchedTrains(train.prev, ListAt(s.trains_by_last_sta, train.first_sta))

\* next_trains
next_trains(s, train) ==
    IF train.is_last THEN <<>>
    ELSE MatchedTrains(train.next, ListAt(s.trains_by_first_sta, train.last_sta))

\* The graph one solve_train call builds: the keys of visited in dict
\* order, node.prev and node.next by train id, the BlockNode objects
\* created per train, and the exception raised.
NoGraph ==
    [visited |-> <<>>, prev |-> [t \in {} |-> <<>>], next |-> [t \in {} |-> <<>>],
     created |-> [t \in {} |-> 0], exc |-> NoExc]

\* BlockNode(train, next=..., prev=...)
NewNode(g, id, prev, next) ==
    [g EXCEPT !.prev = Put(@, id, prev), !.next = Put(@, id, next),
              !.created = Put(@, id, (IF id \in DOMAIN @ THEN @[id] ELSE 0) + 1)]

\* visited[node.train.id] = node
Visit(g, id) ==
    [g EXCEPT !.visited = IF id \in Range(@) THEN @ ELSE Append(@, id)]

\* Mutant: an id already visited is passed over
CircularReferenceIgnored(g) == g

\* "raise BlockError" for an id that is in visited
CircularReference(g) == [g EXCEPT !.exc = "BlockError"]

RECURSIVE expand_previous(_, _, _, _, _)
RECURSIVE expand_next(_, _, _, _, _)
RECURSIVE ExpandPreviousLoop(_, _, _, _, _, _)
RECURSIVE ExpandNextLoop(_, _, _, _, _, _)

\* The for-loop of expand_previous over prev_trains
ExpandPreviousLoop(trains, s, g, id, ignore_train, prev_trains) ==
    IF prev_trains = <<>> \/ g.exc # NoExc THEN g
    ELSE LET p == Head(prev_trains)
             rest == Tail(prev_trains)
         IN  IF p = ignore_train
             THEN ExpandPreviousLoop(trains, s, g, id, ignore_train, rest)
             ELSE IF p \in Range(g.visited)
             THEN CircularReference(g)
             ELSE IF p \notin Range(s.trains_by_id)
             THEN ExpandPreviousLoop(trains, s, g, id, ignore_train, rest)
             ELSE LET g1 == NewNode(g, p, <<>>, <<id>>)
                      g2 == [g1 EXCEPT !.prev[id] = Append(@, p)]
                      g3 == expand_previous(trains, s, g2, p, NoTrain)
                      g4 == IF g3.exc # NoExc THEN g3
                            ELSE expand_next(trains, s, g3, p, id)
                  IN  ExpandPreviousLoop(trains, s, g4, id, ignore_train, rest)

\* expand_previous
expand_previous(trains, s, g, id, ignore_train) ==
    ExpandPreviousLoop(trains, s, Visit(g, id), id, ignore_train,
                       previous_trains(s, trains[id]))

\* The for-loop of expand_next over next_trains
ExpandNextLoop(trains, s, g, id, ignore_train, nexts) ==
    IF nexts = <<>> \/ g.exc # NoExc THEN g
    ELSE LET n == Head(nexts)
             rest == Tail(nexts)
         IN  IF n = ignore_train
             THEN ExpandNextLoop(trains, s, g, id, ignore_train, rest)
             ELSE IF n \in Range(g.visited)
             THEN CircularReference(g)
             ELSE IF n \notin Range(s.trains_by_id)
             THEN ExpandNextLoop(trains, s, g, id, ignore_train, rest)
             ELSE LET g1 == NewNode(g, n, <<id>>, <<>>)
                      g2 == [g1 EXCEPT !.next[id] = Append(@, n)]
                      g3 == expand_next(trains, s, g2, n, NoTrain)
                      g4 == IF g3.exc # NoExc THEN g3
                            ELSE expand_previous(trains, s, g3, n, id)
                  IN  ExpandNextLoop(trains, s, g4, id, ignore_train, rest)

\* expand_next
expand_next(trains, s, g, id, ignore_train) ==
    ExpandNextLoop(trains, s, Visit(g, id), id, ignore_train,
                   next_trains(s, trains[id]))

\* BlockNode.blocks_up_to: the blocks, each a list of train ids
RECURSIVE blocks_up_to(_, _)
RECURSIVE BlocksOfAll(_, _)
BlocksOfAll(g, ids) ==
    IF ids = <<>> THEN <<>>
    ELSE blocks_up_to(g, Head(ids)) \o BlocksOfAll(g, Tail(ids))

\* Mutant: the block of a last train holds that train only
blocks_of_last_only(g, id) == << <<id>> >>

blocks_up_to(g, id) ==
    LET blocks == IF g.prev[id] = <<>> THEN << <<>> >>
                  ELSE BlocksOfAll(g, g.prev[id])
    IN  [i \in 1..Len(blocks) |-> Append(blocks[i], id)]

\* "if splits > 2 or splits > 2 or (merges > 1 and splits > 1)"
TooManyForks(splits, merges) ==
    splits > 2 \/ splits > 2 \/ (merges > 1 /\ splits > 1)

\* Mutant: drop_train for the seed only
DropSeedOnly(trains, s, ids) == drop_train(s, trains[Head(ids)])

\* drop_train for every node of visited
RECURSIVE DropAll(_, _, _)
DropAll(trains, s, ids) ==
    IF ids = <<>> THEN s
    ELSE DropAll(trains, drop_train(s, trains[Head(ids)]), Tail(ids))

\* "for node in block: self.blocks[node.train.id].append(self.block_id)"
\* for every block, with block_id += 1 after each
RECURSIVE AppendBlockIds(_, _)
AppendBlockIds(s, blocks) ==
    IF blocks = <<>> THEN s
    ELSE AppendBlockIds(
            [s EXCEPT !.blocks =
                        [t \in DOMAIN @ \cup Range(Head(blocks)) |->
                            IF t \in Range(Head(blocks))
                            THEN Append(ListAt(@, t), s.block_id)
                            ELSE @[t]],
                      !.block_id = @ + 1],
            Tail(blocks))

\* solve_train: the solver afterwards, the graph built and the exception
solve_train(trains, s, seed) ==
    LET g0 == NewNode(NoGraph, seed, <<>>, <<>>)
        g1 == expand_previous(trains, s, g0, seed, NoTrain)
        g  == IF g1.exc # NoExc THEN g1 ELSE expand_next(trains, s, g1, seed, NoTrain)
    IN  IF g.exc # NoExc THEN [solver |-> s, graph |-> g, exc |-> g.exc]
        ELSE IF Len(g.visited) < 2
        THEN [solver |-> drop_train(s, trains[seed]), graph |-> g, exc |-> NoExc]
        ELSE LET dropped == DropAll(trains, s, g.visited)
                 last_trains == SelectSeq(g.visited, LAMBDA t : g.next[t] = <<>>)
                 merges == Cardinality({t \in Range(g.visited) : Len(g.prev[t]) > 1})
                 splits == Cardinality({t \in Range(g.visited) : Len(g.next[t]) > 1})
             IN  IF TooManyForks(splits, merges)
                 THEN [solver |-> dropped, graph |-> g, exc |-> "BlockError"]
                 ELSE [solver |-> AppendBlockIds(dropped, BlocksOfAll(g, last_trains)),
                       graph |-> g, exc |-> NoExc]

\* solve: "while self.trains_by_id", each time on the first train of the
\* dict, until the dict is empty or solve_train raises
RECURSIVE solve(_, _)
solve(trains, s) ==
    IF s.trains_by_id = <<>> THEN [solver |-> s, exc |-> NoExc]
    ELSE LET r == solve_train(trains, s, Head(s.trains_by_id))
         IN  IF r.exc # NoExc THEN [solver |-> r.solver, exc |-> r.exc]
             ELSE solve(trains, r.solver)

\* get_block
get_block(s, id) ==
    IF id \in DOMAIN s.blocks
    THEN [i \in 1..Len(s.blocks[id]) |-> <<s.prefix, s.blocks[id][i]>>]
    ELSE <<>>

GroupIndex(name) == CHOOSE i \in 1..Len(Groups) : Groups[i] = name

NoSolveTrain == [group |-> 0, seed |-> NoTrain, graph |-> NoGraph, exc |-> NoExc]

\* A link a -> b between trains; a train may name itself.
BSLinkSets(k) == SetsOfAtMost(TrainIds \X TrainIds, k)

\* The feeds: every train declares its previous and next trains; a link
\* a -> b is in a.next and in b.prev, and a train may name itself. A feed
\* has at most MaxBSLinks links, or at most MaxFlaggedLinks links and one
\* train with is_first or is_last set. The trains up to split are of group
\* "G", the others of "H". No stop-time signature is shared.
DeclaredFeed(nx, pv, flagged, split) ==
    [t \in TrainIds |->
        TrainShort(t, IF t <= split THEN Groups[1] ELSE Groups[2],
                   t = flagged[1] /\ flagged[2][1], t = flagged[1] /\ flagged[2][2],
                   SomeList(pv[t]), SomeList(nx[t]), 2 * t - 1, 2 * t, TRUE)]

Flaggings(E) ==
    {<<NoTrain, <<FALSE, FALSE>> >>}
        \cup IF Cardinality(E) <= MaxFlaggedLinks
             THEN TrainIds \X ((BOOLEAN \X BOOLEAN) \ {<<FALSE, FALSE>>})
             ELSE {}

BSInit(split) ==
    /\ \E E \in BSLinkSets(MaxBSLinks) :
         \E nx \in ListChoices(TrainIds,
                    [t \in TrainIds |-> Perms({b \in TrainIds : <<t, b>> \in E})]),
            pv \in ListChoices(TrainIds,
                    [t \in TrainIds |-> Perms({a \in TrainIds : <<a, t>> \in E})]),
            flagged \in Flaggings(E) :
              feed = DeclaredFeed(nx, pv, flagged, split)
    /\ solver = [i \in 1..Len(Groups) |-> NewSolver(Groups[i])]
    /\ main_pc = "load"
    /\ cur = 0
    /\ exported = <<>>
    /\ bs_last = NoSolveTrain
    /\ node_count = [t \in TrainIds |-> 0]

\* Number of trains that are matched on their stop-time signatures, and of
\* signatures (calendar, station, destination, time) they may have.
NHashed == 3
NSigs == 2

\* The feeds without previous_timetable and next_timetable: the trains up
\* to NHashed have neither list and origins = None, so they are matched on
\* StopTimeHash; the last station of a train may be its destination
\* (is_last); a train with one timetable entry has the same first and last
\* signature, a longer one two different ones. The other trains have no
\* through service.
HashedFeed(sig, long, is_last) ==
    [t \in TrainIds |->
        IF t <= NHashed
        THEN TrainShort(t, Groups[1], FALSE, is_last[t], NoList, NoList,
                        sig[t][1], IF long[t] THEN sig[t][2] ELSE sig[t][1], long[t])
        ELSE TrainShort(t, Groups[1], TRUE, TRUE, NoList, NoList,
                        NSigs + 2 * t - 1, NSigs + 2 * t, TRUE)]

HashInit ==
    /\ \E sig \in [1..NHashed -> {p \in (1..NSigs) \X (1..NSigs) : p[1] # p[2]}],
          long \in [1..NHashed -> BOOLEAN], is_last \in [1..NHashed -> BOOLEAN] :
              feed = HashedFeed(sig, long, is_last)
    /\ solver = [i \in 1..Len(Groups) |-> NewSolver(Groups[i])]
    /\ main_pc = "load"
    /\ cur = 0
    /\ exported = <<>>
    /\ bs_last = NoSolveTrain
    /\ node_count = [t \in TrainIds |-> 0]

BSIdle ==
    /\ feed = <<>>
    /\ solver = <<>>
    /\ main_pc = "done"
    /\ cur = 0
    /\ exported = <<>>
    /\ bs_last = NoSolveTrain
    /\ node_count = <<>>

\* multiplex_trains_of_provider: "solver.add_train(train)" for every train
RECURSIVE AddAll(_, _)
AddAll(solvers, trains) ==
    IF trains = <<>> THEN solvers
    ELSE AddAll([solvers EXCEPT ![GroupIndex(Head(trains).group)] =
                                    add_train(@, Head(trains))],
                Tail(trains))

\* create_gtfs: the trains are loaded, "for solver in block_solvers.values()"
MultiplexTrains ==
    /\ main_pc = "load"
    /\ solver' = AddAll(solver, feed)
    /\ main_pc' = "solve"
    /\ cur' = 1
    /\ UNCHANGED <<feed, exported, bs_last, node_count>>
    /\ UNCHANGED <<odptVars, gbVars, ldVars, calVars, sbVars, mgVars>>

\* solve: one iteration of "while self.trains_by_id", on the first train of
\* the dict. A BlockError leaves solve and create_gtfs.
SolveTrain ==
    /\ main_pc = "solve"
    /\ solver[cur].trains_by_id # <<>>
    /\ \E seed \in {Head(solver[cur].trains_by_id)} :
         \E r \in {solve_train(feed, solver[cur], seed)} :
           /\ solver' = [solver EXCEPT ![cur] = r.solver]
           /\ bs_last' = [group |-> cur, seed |-> seed, graph |-> r.graph,
                          exc |-> r.exc]
           /\ node_count' = [t \in TrainIds |->
                                node_count[t] + (IF t \in DOMAIN r.graph.created
                                                 THEN r.graph.created[t] ELSE 0)]
           /\ main_pc' = IF r.exc # NoExc THEN r.exc ELSE main_pc
    /\ UNCHANGED <<feed, cur, exported>>
    /\ UNCHANGED <<odptVars, gbVars, ldVars, calVars, sbVars, mgVars>>

\* solve returns: the next solver, or on to the export
SolverDone ==
    /\ main_pc = "solve"
    /\ solver[cur].trains_by_id = <<>>
    /\ IF cur < Len(Groups)
       THEN cur' = cur + 1 /\ UNCHANGED main_pc
       ELSE main_pc' = "export" /\ UNCHANGED cur
    /\ UNCHANGED <<feed, solver, exported, bs_last, node_count>>
    /\ UNCHANGED <<odptVars, gbVars, ldVars, calVars, sbVars, mgVars>>

\* converter.save_trains: every train is written with its block ids
SaveTrains ==
    /\ main_pc = "export"
    /\ exported' = [t \in TrainIds |->
                        get_block(solver[GroupIndex(feed[t].group)], t)]
    /\ main_pc' = "done"
    /\ UNCHANGED <<feed, solver, cur, bs_last, node_count>>
    /\ UNCHANGED <<odptVars, gbVars, ldVars, calVars, sbVars, mgVars>>

BSNext == MultiplexTrains \/ SolveTrain \/ SolverDone \/ SaveTrains

(***************************************************************************)
(* The timetable loaders                                                   *)
(***************************************************************************)
\* Number of timetable entries of a trip, and of trips of a feed.
MaxEntries == 3
MaxLoadTrips == 2

\* The "HH:MM" strings of the feeds, as <<HH, MM>>; an absent or empty
\* string is NoTime.
ClockTimes == {<<1, 0>>, <<4, 0>>, <<23, 0>>}

OptClockTimes == ClockTimes \cup {NoTime}

\* "x or y" on two time strings
OrElse(x, y) == IF x # NoTime THEN x ELSE y

LoadInit(midnights) ==
    /\ trip_no = 1
    /\ is_midnight \in midnights
    /\ tt = <<>>
    /\ stop_times = <<>>
    /\ previous_dep = 0
    /\ load_pc = "run"

LoadIdle ==
    /\ trip_no = 0
    /\ is_midnight = FALSE
    /\ tt = <<>>
    /\ stop_times = <<>>
    /\ previous_dep = 0
    /\ load_pc = "idle"

\* ---- tokyo_gtfs/rail/load_schedules.py --------------------------------
PREVIOUS_DAY_CUTOFF == 10800
DAY == 86400

\* _parse_time
parse_time(x) == x[1] * 3600 + x[2] * 60

\* _add_24h
add_24h(x) == x + DAY

\* load_train_timetable: one pass of "for idx, j in enumerate(i["tt"])"
MtStopTime ==
    /\ load_pc = "run"
    /\ Len(tt) < MaxEntries
    /\ \E arr_s, dep_s \in OptClockTimes :
         /\ tt' = Append(tt, [a |-> arr_s, d |-> dep_s])
         /\ IF arr_s = NoTime /\ dep_s = NoTime
            THEN UNCHANGED stop_times
            ELSE LET arr0 == parse_time(OrElse(arr_s, dep_s))
                     dep0 == parse_time(OrElse(dep_s, arr_s))
                     arr == IF arr0 < PREVIOUS_DAY_CUTOFF \/ arr0 < previous_dep
                            THEN add_24h(arr0) ELSE arr0
                     dep == IF dep0 < arr THEN add_24h(dep0) ELSE dep0
                 IN  stop_times' = Append(stop_times,
                                          [stop_sequence |-> Len(tt),
                                           arrival |-> arr, departure |-> dep])
    /\ UNCHANGED <<trip_no, is_midnight, previous_dep, load_pc>>
    /\ UNCHANGED <<odptVars, gbVars, bsVars, calVars, sbVars, mgVars>>

\* load_train_timetable: the next train of the file
MtNextTrip ==
    /\ load_pc = "run"
    /\ trip_no < MaxLoadTrips
    /\ trip_no' = trip_no + 1
    /\ tt' = <<>>
    /\ stop_times' = <<>>
    /\ previous_dep' = 0
    /\ UNCHANGED <<is_midnight, load_pc>>
    /\ UNCHANGED <<odptVars, gbVars, bsVars, calVars, sbVars, mgVars>>

MtNext == MtStopTime \/ MtNextTrip

\* ---- static/bus/providers.py ------------------------------------------
HOURS_22 == 79200
HOURS_24 == 86400

\* "while x < bound: x += HOURS_24"
RECURSIVE AddHours24WhileBelow(_, _)
AddHours24WhileBelow(x, bound) ==
    IF x < bound THEN AddHours24WhileBelow(x + HOURS_24, bound) ELSE x

\* ODPTProvider.trips: one pass of "for idx, api_time in enumerate(...)"
BusTimetableObject ==
    /\ load_pc = "run"
    /\ Len(tt) < MaxEntries
    /\ \E arr_s, dep_s \in OptClockTimes :
         LET api_time == [arrivalTime |-> arr_s, departureTime |-> dep_s]
             times == get_arr_dep_times(api_time)
         IN  /\ tt' = Append(tt, [a |-> arr_s, d |-> dep_s])
             /\ IF times[1] < 0 \/ times[2] < 0
                THEN /\ load_pc' = "InvalidData"
                     /\ UNCHANGED <<stop_times, previous_dep>>
                ELSE LET arr1 == AddHours24WhileBelow(times[1], previous_dep)
                         arr == IF is_midnight /\ arr1 < HOURS_22
                                THEN arr1 + HOURS_24 ELSE arr1
                         dep == AddHours24WhileBelow(times[2], previous_dep)
                     IN  /\ previous_dep' = dep
                         /\ stop_times' = Append(stop_times,
                                                 [stop_sequence |-> Len(stop_times),
                                                  arrival |-> arr, departure |-> dep])
                         /\ UNCHANGED load_pc
    /\ UNCHANGED <<trip_no, is_midnight>>
    /\ UNCHANGED <<odptVars, gbVars, bsVars, calVars, sbVars, mgVars>>

\* ODPTProvider.trips: the trip is yielded, the next api_trip begins
BusNextTrip ==
    /\ load_pc = "run"
    /\ trip_no < MaxLoadTrips
    /\ trip_no' = trip_no + 1
    /\ is_midnight' \in BOOLEAN
    /\ tt' = <<>>
    /\ stop_times' = <<>>
    /\ previous_dep' = 0
    /\ UNCHANGED load_pc
    /\ UNCHANGED <<odptVars, gbVars, bsVars, calVars, sbVars, mgVars>>

BusNext == BusTimetableObject \/ BusNextTrip

(***************************************************************************)
(* static/other.py CalendarHandler, static/bus/converter.py export_trip    *)
(***************************************************************************)
\* Number of dates from self.start to self.end, and of trips of a feed.
NDays == 2
MaxCalTrips == 3

Dates == 1..NDays

\* date.weekday() of a date of the range
Weekday(d) == (start + d - 1) % 7

built_ins_priority ==
    << <<"Monday", "Weekday", "Everyday">>,
       <<"Tuesday", "Weekday", "Everyday">>,
       <<"Wednesday", "Weekday", "Everyday">>,
       <<"Thursday", "Weekday", "Everyday">>,
       <<"Friday", "Weekday", "Everyday">>,
       <<"Saturday", "SaturdayHoliday", "Everyday">>,
       <<"Sunday", "Holiday", "SaturdayHoliday", "Everyday">>,
       <<"Holiday", "SaturdayHoliday", "Everyday">> >>

built_ins ==
    {"Everyday", "Weekday", "SaturdayHoliday", "Holiday", "Sunday", "Monday",
     "Tuesday", "Wednesday", "Thursday", "Friday", "Saturday"}

\* Mutant: the key -1 read as the first row
PriorityOfFirstRow(weekday) ==
    IF weekday < 0 THEN built_ins_priority[1] ELSE built_ins_priority[weekday + 1]

\* self.built_ins_priority[weekday], a Python list index: -1 is the last
PriorityOf(weekday) ==
    IF weekday < 0 THEN built_ins_priority[Len(built_ins_priority) + 1 + weekday]
    ELSE built_ins_priority[weekday + 1]

\* The routes, each an agency and a name: the id is "agency.name".
Routes == << <<"A", "r">>, <<"B", "r">> >>

\* first_part(route)
first_part(route) == route[1]

\* route_id + "." + calendar_id
ServiceId(route_id, calendar_id) == <<route_id, calendar_id>>

\* The calendars trips refer to.
TripCalendars ==
    <<"Weekday", "Saturday", "SaturdayHoliday", "Everyday", "SpecificA", "SpecificB">>

\* The trips a feed is made of: one for every route and calendar, with two
\* stops that are valid, and one with a single valid stop.
AllCalTrips ==
    << [route |-> Routes[1], calendar |-> "Weekday", valid_times |-> 1] >>
    \o [k \in 1..(Len(Routes) * Len(TripCalendars)) |->
           [route |-> Routes[((k - 1) \div Len(TripCalendars)) + 1],
            calendar |-> TripCalendars[((k - 1) % Len(TripCalendars)) + 1],
            valid_times |-> 2]]

\* The increasing sequences of at most k numbers of lo..n
RECURSIVE IncSeqs(_, _, _)
IncSeqs(k, lo, n) ==
    IF k = 0 THEN {<<>>}
    ELSE {<<>>} \cup UNION {{<<i>> \o t : t \in IncSeqs(k - 1, i + 1, n)} : i \in lo..n}

\* The calendars of a feed: every built-in calendar, and three specific
\* ones with their days; NDays + 1 is a day after self.end.
FeedCalendars(days_a, days_b) ==
    {[id |-> b, days |-> {}] : b \in built_ins}
        \cup {[id |-> "SpecificA", days |-> days_a],
              [id |-> "SpecificB", days |-> days_b],
              [id |-> "SpecificNone", days |-> {}]}

SpecificDays == {<<{NDays + 1}, {1}>>, <<{1}, {1}>>, <<{1}, {NDays}>>}

\* load_valid: self.valid
load_valid_valid(calendars) ==
    {c.id : c \in {c \in calendars :
                      \/ c.id \in built_ins
                      \/ (c.days # {} /\ c.days \cap Dates # {})}}

\* load_valid: self.special
load_valid_special(calendars) ==
    LET at(d) == {c.id : c \in {c \in calendars :
                                   c.id \notin built_ins /\ d \in c.days}}
    IN  [d \in {d \in Dates : at(d) # {}} |-> at(d)]

CalInit ==
    /\ start \in 0..6
    /\ holidays \in {{}, {1}}
    /\ \E sd \in SpecificDays :
          /\ valid = load_valid_valid(FeedCalendars(sd[1], sd[2]))
          /\ special = load_valid_special(FeedCalendars(sd[1], sd[2]))
    /\ used = [r \in {} |-> {}]
    /\ rows = {}
    /\ trip_feed \in {[i \in 1..Len(q) |-> AllCalTrips[q[i]]] :
                         q \in IncSeqs(MaxCalTrips, 1, Len(AllCalTrips))}
    /\ trip_i = 0
    /\ exported_trips = {}
    /\ stop_times_txt = {}
    /\ removed_trips_by_agency = [a \in {} |-> 0]

CalIdle ==
    /\ start = 0
    /\ holidays = {}
    /\ valid = {}
    /\ special = <<>>
    /\ used = <<>>
    /\ rows = {}
    /\ trip_feed = <<>>
    /\ trip_i = -2
    /\ exported_trips = {}
    /\ stop_times_txt = {}
    /\ removed_trips_by_agency = <<>>

\* CalendarHandler.use: the service id or None, and self.used afterwards
NoService == <<>>

use(u, route_id, calendar_id) ==
    IF calendar_id \notin valid
    THEN [service |-> NoService, used |-> u]
    ELSE [service |-> ServiceId(route_id, calendar_id),
          used |-> Put(u, route_id, (IF route_id \in DOMAIN u THEN u[route_id] ELSE {})
                                       \cup {calendar_id})]

\* defaultdict(lambda: 0)[key] += 1
Increment(d, key) == Put(d, key, (IF key \in DOMAIN d THEN d[key] ELSE 0) + 1)

\* Mutant: a trip without a valid calendar is counted as removed
RemovedForCalendarCounted(removed, trip) == Increment(removed, first_part(trip.route))

\* Converter.export_trip: what becomes of the counter when the calendar
\* is not valid
RemovedForCalendar(removed, trip) == removed

\* Converter.export_trip on the next trip of the feed
ExportTrip ==
    /\ trip_i >= 0
    /\ trip_i < Len(trip_feed)
    /\ LET trip == trip_feed[trip_i + 1]
           r == use(used, trip.route, trip.calendar)
       IN  /\ used' = r.used
           /\ IF r.service = NoService
              THEN /\ removed_trips_by_agency' =
                          RemovedForCalendar(removed_trips_by_agency, trip)
                   /\ UNCHANGED <<exported_trips, stop_times_txt>>
              ELSE IF trip.valid_times <= 1
              THEN /\ removed_trips_by_agency' =
                          Increment(removed_trips_by_agency, first_part(trip.route))
                   /\ UNCHANGED <<exported_trips, stop_times_txt>>
              ELSE /\ exported_trips' = exported_trips \cup {trip_i + 1}
                   /\ stop_times_txt' = stop_times_txt \cup
                          {<<trip_i + 1, idx>> : idx \in 0..(trip.valid_times - 1)}
                   /\ UNCHANGED removed_trips_by_agency
    /\ trip_i' = trip_i + 1
    /\ UNCHANGED <<start, holidays, valid, special, rows, trip_feed>>
    /\ UNCHANGED <<odptVars, gbVars, bsVars, ldVars, sbVars, mgVars>>

\* Mutant: the loop over the priority list without its break
EveryUsed(priority, calendars_used) ==
    {priority[i] : i \in {i \in 1..Len(priority) : priority[i] \in calendars_used}}

\* The first calendar of a priority list that is in calendars_used, as a
\* list of one, or the empty list
FirstUsed(priority, calendars_used) ==
    LET hits == SelectSeq(priority, LAMBDA c : c \in calendars_used)
    IN  IF hits = <<>> THEN {} ELSE {Head(hits)}

\* Mutant: the built-in calendar is active along with the special ones
active_services_with_built_in(calendars_used, working_date) ==
    LET weekday == IF working_date \in holidays THEN -1 ELSE Weekday(working_date)
        special_calendars ==
            IF working_date \in DOMAIN special
            THEN calendars_used \cap special[working_date]
            ELSE {}
    IN  special_calendars \cup FirstUsed(PriorityOf(weekday), calendars_used)

\* export: active_services of a route on a date
active_services(calendars_used, working_date) ==
    LET weekday == IF working_date \in holidays THEN -1 ELSE Weekday(working_date)
        special_calendars ==
            IF working_date \in DOMAIN special
            THEN calendars_used \cap special[working_date]
            ELSE {}
    IN  IF special_calendars # {} THEN special_calendars
        ELSE FirstUsed(PriorityOf(weekday), calendars_used)

\* CalendarHandler.export, after the last trip
Export ==
    /\ trip_i = Len(trip_feed)
    /\ rows' = {[service_id |-> ServiceId(route_id, a), date |-> d] :
                   <<route_id, a, d>> \in
                      {x \in (DOMAIN used) \X (built_ins \cup valid) \X Dates :
                          x[2] \in active_services(used[x[1]], x[3])}}
    /\ trip_i' = -1
    /\ UNCHANGED <<start, holidays, valid, special, used, trip_feed,
                   exported_trips, stop_times_txt, removed_trips_by_agency>>
    /\ UNCHANGED <<odptVars, gbVars, bsVars, ldVars, sbVars, mgVars>>

\* self.calendars.exported: "self.exported.add(service_id)" for every row
\* export saved
calendars_exported == {x.service_id : x \in rows}

\* The service_id column of trip t of trips.txt
ServiceOf(t) == ServiceId(trip_feed[t].route, trip_feed[t].calendar)

\* Converter.cleanup_trips_without_service on the files trips.txt and
\* stop_times.txt. The first rewrite keeps the trips whose service_id was
\* exported and collects the others in trips_to_remove; the second one
\* ("Re-write stop_times.txt") renames, reads and writes
\* DIR_GTFS / "trips.txt" again, keeping the rows whose trip_id is not in
\* trips_to_remove.
cleanup_trips_without_service(files) ==
    LET kept == {t \in files.trips : ServiceOf(t) \in calendars_exported}
        trips_to_remove == files.trips \ kept
        rewritten == [files EXCEPT !.trips = kept]
    IN  [rewritten EXCEPT !.trips = {t \in @ : t \notin trips_to_remove}]

\* create_gtfs: converter.cleanup_trips_without_service(), after the
\* calendars were saved
CleanupTripsWithoutService ==
    /\ trip_i = -1
    /\ \E files \in {cleanup_trips_without_service(
                        [trips |-> exported_trips, stop_times |-> stop_times_txt])} :
          /\ exported_trips' = files.trips
          /\ stop_times_txt' = files.stop_times
    /\ trip_i' = -3
    /\ UNCHANGED <<start, holidays, valid, special, used, rows, trip_feed,
                   removed_trips_by_agency>>
    /\ UNCHANGED <<odptVars, gbVars, bsVars, ldVars, sbVars, mgVars>>

CalNext == ExportTrip \/ Export \/ CleanupTripsWithoutService

(***************************************************************************)
(* tokyo_gtfs/rail/simplify_blocks.py: SimplifyBlocks                      *)
(***************************************************************************)
MaxSbTrips == 3

MaxExecutes == 2

\* trip_id values in string order: the prefix score_base_candidate tests
\* with startswith, and whether "Branch" is in the id
SbTripIds ==
    << [prefix |-> "JR-East.Chuo.", branch |-> FALSE],
       [prefix |-> "JR-East.ChuoBranch.", branch |-> TRUE],
       [prefix |-> "JR-East.ShonanShinjuku.", branch |-> FALSE],
       [prefix |-> "JR-East.Yokosuka.", branch |-> FALSE],
       [prefix |-> "Tobu.Isesaki.", branch |-> FALSE] >>

PREFERRED_BASE_ROUTES ==
    {"JR-East.Yokosuka.", "JR-East.Tsurumi.", "JR-East.Musashino.", "Tobu.TobuSkytree."}

SbRoutes == <<"JR-East.Musashino", "JR-East.Yokosuka">>

SbBlocks == <<"b1", "b2">>

SbCalendars == <<"Weekday", "Holiday">>

\* short_name and headsign of a trip
SbLabels == << <<"", "Tokyo">>, <<"", "Ofuna">>, <<"N", "Tokyo">> >>

\* block_id IS NULL
NULL == "NULL"

\* The stop_times of a trip that runs p-th in its feed: two stops, the
\* second one the first stop of the trip that runs next; stop ids are a
\* prefix and a stem
SbTimesOf(k, p) ==
    << [trip_id |-> k, stop_id |-> <<SbTripIds[k].prefix, p>>, stop_sequence |-> 1,
        arrival_time |-> 10 * p, departure_time |-> 10 * p + 1],
       [trip_id |-> k, stop_id |-> <<SbTripIds[k].prefix, p + 1>>, stop_sequence |-> 2,
        arrival_time |-> 10 * p + 8, departure_time |-> 10 * p + 9] >>

\* The trips and stop_times tables before the first execute: n trips in
\* any order of first stop time, on any routes and blocks; at most one
\* trip not on the first calendar and at most one not with the first
\* labels
SbInit ==
    /\ \E n \in 1..MaxSbTrips :
       \E pos \in {f \in [1..n -> 1..n] : \A a, b \in 1..n : f[a] = f[b] => a = b} :
       \E route \in [1..n -> Range(SbRoutes)] :
       \E block \in {f \in [1..n -> Range(SbBlocks)] : f[1] = SbBlocks[1]} :
       \E oddc \in {o \in SUBSET (1..n) : Cardinality(o) <= 1} :
       \E oddl \in {o \in SUBSET (1..n) : Cardinality(o) <= 1} :
       \E label \in 2..Len(SbLabels) :
          /\ sb_trips =
                [k \in 1..n |->
                    [route_id |-> route[k],
                     calendar_id |-> IF k \in oddc THEN SbCalendars[2] ELSE SbCalendars[1],
                     short_name |-> (IF k \in oddl THEN SbLabels[label] ELSE SbLabels[1])[1],
                     headsign |-> (IF k \in oddl THEN SbLabels[label] ELSE SbLabels[1])[2],
                     block_id |-> block[k]]]
          /\ sb_stop_times = [k \in 1..n |-> SbTimesOf(k, pos[k])]
    /\ sb_blocks = <<>>
    /\ sb_runs = 0

\* The tables of a feed with one block in which every route has two
\* trips, in any order of first stop time and on any calendars; at most
\* one trip not with the first labels
SbPairsInit ==
    /\ \E pos \in {f \in [1..(2 * Len(SbRoutes)) -> 1..(2 * Len(SbRoutes))] :
                       \A a, b \in DOMAIN f : f[a] = f[b] => a = b} :
       \E calendar \in [DOMAIN pos -> Range(SbCalendars)] :
       \E oddl \in {o \in SUBSET (DOMAIN pos) : Cardinality(o) <= 1} :
       \E label \in 2..Len(SbLabels) :
          /\ sb_trips =
                [k \in DOMAIN pos |->
                    [route_id |-> SbRoutes[((k - 1) \div 2) + 1],
                     calendar_id |-> calendar[k],
                     short_name |-> (IF k \in oddl THEN SbLabels[label] ELSE SbLabels[1])[1],
                     headsign |-> (IF k \in oddl THEN SbLabels[label] ELSE SbLabels[1])[2],
                     block_id |-> SbBlocks[1]]]
          /\ sb_stop_times = [k \in DOMAIN pos |-> SbTimesOf(k, pos[k])]
    /\ sb_blocks = <<>>
    /\ sb_runs = 0

SbIdle ==
    /\ sb_trips = <<>>
    /\ sb_stop_times = <<>>
    /\ sb_blocks = <<>>
    /\ sb_runs = -1

\* GROUP BY block_id, route_id: the trips of one group
SbGroup(t, b, r) == {k \in DOMAIN t : t[k].block_id = b /\ t[k].route_id = r}

\* The HAVING clause of find_blocks_to_merge
Having(t, g, r) ==
    /\ Cardinality(g) > 1
    /\ Cardinality({t[k].calendar_id : k \in g}) = 1
    /\ \/ /\ Cardinality({t[k].short_name : k \in g}) = 1
          /\ Cardinality({t[k].headsign : k \in g}) = 1
       \/ r \in {"JR-East.NaritaExpress", "JR-East.Musashino"}

\* find_blocks_to_merge: one block_id for each group that passes
find_blocks_to_merge(t) ==
    LET groups == [i \in 1..(Len(SbBlocks) * Len(SbRoutes)) |->
                      <<SbBlocks[((i - 1) \div Len(SbRoutes)) + 1],
                        SbRoutes[((i - 1) % Len(SbRoutes)) + 1]>>]
        passing == SelectSeq(groups, LAMBDA g : Having(t, SbGroup(t, g[1], g[2]), g[2]))
    IN  [i \in 1..Len(passing) |-> passing[i][1]]

\* TripWithTimes.first_time
first_time(st, k) == st[k][1].arrival_time

\* list.sort(key=first_time) of trips read in row order
RECURSIVE SortByFirstTime(_, _)
SortByFirstTime(st, ks) ==
    IF ks = {} THEN <<>>
    ELSE LET k == CHOOSE k \in ks : \A o \in ks :
                     \/ first_time(st, k) < first_time(st, o)
                     \/ (first_time(st, k) = first_time(st, o) /\ k <= o)
         IN  <<k>> \o SortByFirstTime(st, ks \ {k})

\* Mutant: the trips of a block in row order, not sorted
BlockWithTripsUnsorted(t, st, b) ==
    LET ks == {k \in DOMAIN t : t[k].block_id = b}
    IN  SortByFirstTime([k \in ks |-> <<[arrival_time |-> 0]>>], ks)

\* BlockWithTrips.retrieve: the trips of a block by first_time
BlockWithTrips(t, st, b) ==
    SortByFirstTime(st, {k \in DOMAIN t : t[k].block_id = b})

\* Mutant: groups of at most two trips
RECURSIVE groupby_pairs(_, _)
groupby_pairs(t, ks) ==
    IF ks = <<>> THEN <<>>
    ELSE LET rest == groupby_pairs(t, Tail(ks))
         IN  IF /\ rest # <<>>
                /\ Len(Head(rest)) < 2
                /\ t[Head(rest)[1]].route_id = t[Head(ks)].route_id
             THEN << <<Head(ks)>> \o Head(rest) >> \o Tail(rest)
             ELSE << <<Head(ks)>> >> \o rest

\* itertools.groupby(block.trips, key=route_id): the runs of consecutive
\* trips of one route
RECURSIVE groupby(_, _)
groupby(t, ks) ==
    IF ks = <<>> THEN <<>>
    ELSE LET rest == groupby(t, Tail(ks))
         IN  IF rest # <<>> /\ t[Head(rest)[1]].route_id = t[Head(ks)].route_id
             THEN << <<Head(ks)>> \o Head(rest) >> \o Tail(rest)
             ELSE << <<Head(ks)>> >> \o rest

\* score_base_candidate: the first component of the score
score_base_candidate(k) ==
    IF SbTripIds[k].prefix = "JR-East.ShonanShinjuku." THEN 4
    ELSE IF SbTripIds[k].prefix \in PREFERRED_BASE_ROUTES THEN 3
    ELSE IF ~SbTripIds[k].branch THEN 2
    ELSE 1

\* max(trips, key=score_base_candidate): the score is (number, trip id)
BaseOf(run) ==
    CHOOSE k \in Range(run) : \A o \in Range(run) :
        \/ score_base_candidate(k) > score_base_candidate(o)
        \/ (score_base_candidate(k) = score_base_candidate(o) /\ k >= o)

\* same_stop: the stems after the last dot are equal
same_stop(a, b) == a[2] = b[2]

\* chain.from_iterable(i.times for i in trips)
RECURSIVE ChainTimes(_, _)
ChainTimes(st, run) ==
    IF run = <<>> THEN <<>> ELSE st[Head(run)] \o ChainTimes(st, Tail(run))

\* Mutant: a collapsed stop-time takes the arrival of its last stop-time
RECURSIVE MergeLoopLastArrival(_, _, _, _, _)
MergeLoopLastArrival(trip_id, incoming, combined, idx, out) ==
    IF incoming = <<>> THEN out \o combined
    ELSE LET i == Head(incoming)
         IN  IF combined = <<>>
             THEN MergeLoopLastArrival(trip_id, Tail(incoming),
                     <<[i EXCEPT !.trip_id = trip_id, !.stop_sequence = idx]>>,
                     idx + 1, out)
             ELSE IF same_stop(combined[1].stop_id, i.stop_id)
             THEN MergeLoopLastArrival(trip_id, Tail(incoming),
                     <<[i EXCEPT !.trip_id = trip_id,
                                 !.stop_sequence = combined[1].stop_sequence]>>,
                     idx, out)
             ELSE MergeLoopLastArrival(trip_id, Tail(incoming),
                     <<[i EXCEPT !.trip_id = trip_id, !.stop_sequence = idx]>>,
                     idx + 1, out \o combined)

\* get_merged_stop_times: the loop, with combined the stop-time remembered
\* (<<>> for None) and out the stop-times yielded
RECURSIVE MergeLoop(_, _, _, _, _)
MergeLoop(trip_id, incoming, combined, idx, out) ==
    IF incoming = <<>> THEN out \o combined
    ELSE LET i == Head(incoming)
         IN  IF combined = <<>>
             THEN MergeLoop(trip_id, Tail(incoming),
                     <<[i EXCEPT !.trip_id = trip_id, !.stop_sequence = idx]>>,
                     idx + 1, out)
             ELSE IF same_stop(combined[1].stop_id, i.stop_id)
             THEN MergeLoop(trip_id, Tail(incoming),
                     <<[i EXCEPT !.trip_id = trip_id,
                                 !.stop_sequence = combined[1].stop_sequence,
                                 !.arrival_time = combined[1].arrival_time]>>,
                     idx, out)
             ELSE MergeLoop(trip_id, Tail(incoming),
                     <<[i EXCEPT !.trip_id = trip_id, !.stop_sequence = idx]>>,
                     idx + 1, out \o combined)

get_merged_stop_times(trip_id, st, run) ==
    MergeLoop(trip_id, ChainTimes(st, run), <<>>, 0, <<>>)

\* merge_trips on a database db = [trips, stop_times]: the stop_times of
\* the base are replaced, the other trips are deleted with their
\* stop_times
merge_trips(db, run) ==
    LET base == BaseOf(run)
        kept == DOMAIN db.trips \ (Range(run) \ {base})
    IN  [trips |-> [k \in kept |-> db.trips[k]],
         stop_times |-> [k \in kept |->
                            IF k = base THEN get_merged_stop_times(base, db.stop_times, run)
                            ELSE db.stop_times[k]]]

\* merge_consecutive_trips_in_block: the loop over the groups
RECURSIVE MergeRuns(_, _)
MergeRuns(db, runs) ==
    IF runs = <<>> THEN db
    ELSE MergeRuns(IF Len(Head(runs)) > 1 THEN merge_trips(db, Head(runs)) ELSE db,
                   Tail(runs))

merge_consecutive_trips_in_block(db, b) ==
    MergeRuns(db, groupby(db.trips, BlockWithTrips(db.trips, db.stop_times, b)))

\* execute: the loop over blocks
RECURSIVE MergeBlocks(_, _)
MergeBlocks(db, bs) ==
    IF bs = <<>> THEN db
    ELSE MergeBlocks(merge_consecutive_trips_in_block(db, Head(bs)), Tail(bs))

\* remove_blocks_with_one_trip
remove_blocks_with_one_trip(t) ==
    LET alone_blocks ==
            {b \in {t[k].block_id : k \in DOMAIN t} \ {NULL} :
                Cardinality({k \in DOMAIN t : t[k].block_id = b}) = 1}
    IN  [k \in DOMAIN t |->
            IF t[k].block_id \in alone_blocks THEN [t[k] EXCEPT !.block_id = NULL]
            ELSE t[k]]

\* SimplifyBlocks.execute
Execute ==
    /\ sb_runs >= 0
    /\ sb_runs < MaxExecutes
    /\ sb_blocks' = find_blocks_to_merge(sb_trips)
    /\ \E db \in {MergeBlocks([trips |-> sb_trips, stop_times |-> sb_stop_times],
                              find_blocks_to_merge(sb_trips))} :
          /\ sb_trips' = remove_blocks_with_one_trip(db.trips)
          /\ sb_stop_times' = db.stop_times
    /\ sb_runs' = sb_runs + 1
    /\ UNCHANGED <<odptVars, gbVars, bsVars, ldVars, calVars, mgVars>>

SbNext == Execute

(***************************************************************************)
(* simplify_blocks.py: get_merged_stop_times on any stop_times             *)
(***************************************************************************)
MaxMergeTimes == 4

NotCalled == "NotCalled"

MergeStopIds == {<<"JR-East.Chuo.", "x">>, <<"JR-East.Yokosuka.", "x">>,
                 <<"JR-East.Chuo.", "y">>, <<"JR-East.Yokosuka.", "y">>}

\* The chained stop_times of two trips: the first cut ones are of trip 1,
\* the others of trip 2, each trip numbering its own from 1
MergeInit ==
    /\ merge_trip_id \in 1..2
    /\ \E n \in 0..MaxMergeTimes : \E cut \in 0..n : \E stop \in [1..n -> MergeStopIds] :
          merge_in = [i \in 1..n |->
                         [trip_id |-> IF i <= cut THEN 1 ELSE 2,
                          stop_id |-> stop[i],
                          stop_sequence |-> IF i <= cut THEN i ELSE i - cut,
                          arrival_time |-> 10 * i,
                          departure_time |-> 10 * i + 1]]
    /\ merge_out = NotCalled

MergeIdle ==
    /\ merge_trip_id = 0
    /\ merge_in = <<>>
    /\ merge_out = <<>>

\* list(get_merged_stop_times(trip_id, trips))
GetMergedStopTimes ==
    /\ merge_out = NotCalled
    /\ merge_out' = MergeLoop(merge_trip_id, merge_in, <<>>, 0, <<>>)
    /\ UNCHANGED <<merge_trip_id, merge_in>>
    /\ UNCHANGED <<odptVars, gbVars, bsVars, ldVars, calVars, sbVars>>

MergeNext == GetMergedStopTimes

(***************************************************************************)
(* generate_blocks.py: fix_link_consistency on the links as retrieved      *)
(***************************************************************************)
NFixTrips == 2

MaxRawLinks == 3

\* The lists of the trips table: a sequence of link entries (trip, forward,
\* linked id) gives each trip its next and previous list in entry order;
\* the linked id 0 is an id that is not in the table
RawList(entries, t, forward) ==
    LET own == SelectSeq(entries, LAMBDA e : e[1] = t /\ e[2] = forward)
    IN  [i \in 1..Len(own) |-> own[i][3]]

\* retrieve_all_nodes
FixInit ==
    /\ \E n \in 0..MaxRawLinks :
       \E entries \in [1..n -> (1..NFixTrips) \X BOOLEAN \X (0..NFixTrips)] :
          node = [t \in 1..NFixTrips |->
                     BlockNode(t, <<t>>, RawList(entries, t, FALSE),
                               RawList(entries, t, TRUE))]
    /\ to_process = <<>>
    /\ counter = 0
    /\ trips = <<>>
    /\ gb_pc = "retrieved"
    /\ gb_last = NoSolve

\* Mutant: the list of the linked node is left as it is
ReverseLinkIgnored(list, id) == list

\* if id not in getattr(linked, other_attr): ....append(id)
ReverseLink(list, id) == IF id \in Range(list) THEN list ELSE Append(list, id)

\* _fix_node_link_consistency: the loop over the links of node id, then
\* setattr(n, self_attr, fixed)
RECURSIVE FixLinks(_, _, _, _, _)
FixLinks(nodes, id, forward, links, fixed) ==
    IF links = <<>>
    THEN IF forward THEN [nodes EXCEPT ![id].next = fixed]
         ELSE [nodes EXCEPT ![id].previous = fixed]
    ELSE IF Head(links) \in DOMAIN nodes
    THEN FixLinks(IF forward
                  THEN [nodes EXCEPT ![Head(links)].previous = ReverseLink(@, id)]
                  ELSE [nodes EXCEPT ![Head(links)].next = ReverseLink(@, id)],
                  id, forward, Tail(links), Append(fixed, Head(links)))
    ELSE FixLinks(nodes, id, forward, Tail(links), fixed)

fix_node_link_consistency(nodes, id, forward) ==
    FixLinks(nodes, id, forward,
             IF forward THEN nodes[id].next ELSE nodes[id].previous, <<>>)

\* fix_link_consistency: the loop over nodes.values(), from node id on
RECURSIVE fix_link_consistency(_, _)
fix_link_consistency(nodes, id) ==
    IF id \notin DOMAIN nodes THEN nodes
    ELSE fix_link_consistency(
             fix_node_link_consistency(
                 fix_node_link_consistency(nodes, id, TRUE), id, FALSE),
             id + 1)

\* find_all_nodes: fix_link_consistency(nodes); gb_last keeps the nodes as
\* they were retrieved
FindAllNodes ==
    /\ gb_pc = "retrieved"
    /\ node' = fix_link_consistency(node, 1)
    /\ gb_last' = [NoSolve EXCEPT !.node = node]
    /\ gb_pc' = "fixed"
    /\ UNCHANGED <<to_process, counter, trips>>
    /\ UNCHANGED <<odptVars, bsVars, ldVars, calVars, sbVars, mgVars>>

FixNext == FindAllNodes

(***************************************************************************)
(* Specifications                                                          *)
(***************************************************************************)
InitOdpt == OdptInit /\ GBIdle /\ BSIdle /\ LoadIdle /\ CalIdle /\ SbIdle /\ MergeIdle

SpecOdpt == InitOdpt /\ [][OdptNext]_vars

InitGB == GBInit /\ OdptIdle /\ BSIdle /\ LoadIdle /\ CalIdle /\ SbIdle /\ MergeIdle

SpecGB == InitGB /\ [][GBNext]_vars

\* One through-service group holds every train.
InitBS == BSInit(NTrains) /\ OdptIdle /\ GBIdle /\ LoadIdle /\ CalIdle /\ SbIdle /\ MergeIdle

SpecBS == InitBS /\ [][BSNext]_vars

\* Two through-service groups: the first two trains are of the first one.
InitMain == BSInit(2) /\ OdptIdle /\ GBIdle /\ LoadIdle /\ CalIdle /\ SbIdle /\ MergeIdle

SpecMain == InitMain /\ [][BSNext]_vars

InitMt == LoadInit({FALSE}) /\ OdptIdle /\ GBIdle /\ BSIdle /\ CalIdle /\ SbIdle /\ MergeIdle

SpecMt == InitMt /\ [][MtNext]_vars

InitBus == LoadInit(BOOLEAN) /\ OdptIdle /\ GBIdle /\ BSIdle /\ CalIdle /\ SbIdle /\ MergeIdle

SpecBus == InitBus /\ [][BusNext]_vars

InitCal == CalInit /\ OdptIdle /\ GBIdle /\ BSIdle /\ LoadIdle /\ SbIdle /\ MergeIdle

SpecCal == InitCal /\ [][CalNext]_vars

InitSb == SbInit /\ OdptIdle /\ GBIdle /\ BSIdle /\ LoadIdle /\ CalIdle /\ MergeIdle

SpecSb == InitSb /\ [][SbNext]_vars

InitSbPairs == SbPairsInit /\ OdptIdle /\ GBIdle /\ BSIdle /\ LoadIdle /\ CalIdle /\ MergeIdle

SpecSbPairs == InitSbPairs /\ [][SbNext]_vars

InitMerge == MergeInit /\ OdptIdle /\ GBIdle /\ BSIdle /\ LoadIdle /\ CalIdle /\ SbIdle

SpecMerge == InitMerge /\ [][MergeNext]_vars

InitHash == HashInit /\ OdptIdle /\ GBIdle /\ LoadIdle /\ CalIdle /\ SbIdle /\ MergeIdle

SpecHash == InitHash /\ [][BSNext]_vars

InitSuffixed ==
    SuffixedInit /\ OdptIdle /\ BSIdle /\ LoadIdle /\ CalIdle /\ SbIdle /\ MergeIdle

SpecSuffixed == InitSuffixed /\ [][GBNext]_vars

InitFix == FixInit /\ OdptIdle /\ BSIdle /\ LoadIdle /\ CalIdle /\ SbIdle /\ MergeIdle

SpecFix == InitFix /\ [][FixNext]_vars

(***************************************************************************)
(* GenerateBlocks: claims                                                  *)
(***************************************************************************)
\* The trips linked to the trips of S, by any number of links.
RECURSIVE Component(_)
Component(S) ==
    LET S2 == S \cup UNION {Range(node[t].next) \cup Range(node[t].previous) : t \in S}
    IN  IF S2 = S THEN S ELSE Component(S2)

\* The component of the root of the last solve() call.
RootComponent == Component({gb_last.root})

NumLinks(K) == Cardinality({p \in K \X K : p[2] \in Range(node[p[1]].next)})

\* A component without a second path between any two trips.
IsTree(K) == NumLinks(K) = Cardinality(K) - 1

SplitNodes(K) == {t \in K : Len(node[t].next) > 1}
JoinNodes(K) == {t \in K : Len(node[t].previous) > 1}
ForkCount(K) == Cardinality(SplitNodes(K)) + Cardinality(JoinNodes(K))

\* The trips after t, following single next links, nearest first.
RECURSIVE TripsAfter(_)
TripsAfter(t) ==
    IF Len(node[t].next) # 1 THEN <<>>
    ELSE <<node[t].next[1]>> \o TripsAfter(node[t].next[1])

\* The trips before t, following single previous links, nearest first.
RECURSIVE TripsBefore(_)
TripsBefore(t) ==
    IF Len(node[t].previous) # 1 THEN <<>>
    ELSE <<node[t].previous[1]>> \o TripsBefore(node[t].previous[1])

BlockIds(block) == [i \in 1..Len(block) |-> block[i].trip_id]
BlockSuffixes(block) == [i \in 1..Len(block) |-> block[i].clone_with_suffix]

\* A solve() call on a flat chain of at least two trips.
SolvedFlatChain ==
    /\ gb_last.root # 0
    /\ Cardinality(RootComponent) >= 2
    /\ IsTree(RootComponent)
    /\ ForkCount(RootComponent) = 0

\* The chain of the last root, first trip first.
ChainOrder ==
    Reverse(TripsBefore(gb_last.root)) \o <<gb_last.root>> \o TripsAfter(gb_last.root)

SolvedSingleFork ==
    /\ gb_last.root # 0
    /\ IsTree(RootComponent)
    /\ ForkCount(RootComponent) = 1

TheFork == CHOOSE t \in SplitNodes(RootComponent) \cup JoinNodes(RootComponent) : TRUE

ForkIsSplit == TheFork \in SplitNodes(RootComponent)

\* The shared leg, in travel order.
Trunk ==
    IF ForkIsSplit THEN Reverse(TripsBefore(TheFork)) \o <<TheFork>>
    ELSE <<TheFork>> \o TripsAfter(TheFork)

\* The i-th unique leg, in travel order.
UniqueLeg(i) ==
    IF ForkIsSplit
    THEN <<node[TheFork].next[i]>> \o TripsAfter(node[TheFork].next[i])
    ELSE Reverse(TripsBefore(node[TheFork].previous[i])) \o <<node[TheFork].previous[i]>>

NumLegs == IF ForkIsSplit THEN Len(node[TheFork].next) ELSE Len(node[TheFork].previous)

Zeros(n) == [i \in 1..n |-> 0]

C2_WitnessJoin ==
    /\ SolvedSingleFork
    /\ ~ForkIsSplit
    /\ Len(gb_last.blocks) = 3
    /\ Last(gb_last.blocks[3]).clone_with_suffix = 3

C4_Witness ==
    /\ gb_last.found
    /\ \E t \in Range(gb_last.visited) :
          /\ SplitNodes(Range(gb_last.visited)) = {t}
          /\ JoinNodes(Range(gb_last.visited)) = {t}
    /\ gb_last.blocks = <<>>
    /\ gb_last.exc = NoExc

C23_BlockDestinations ==
    (gb_last.found /\ gb_last.exc = NoExc
        /\ Len(find_forks(node, gb_last.visited)) = 1) =>
        /\ \A b \in 1..Len(gb_last.blocks) :
              \A i \in 1..Len(gb_last.blocks[b]) :
                  gb_last.blocks[b][i].destinations =
                      node[Last(gb_last.blocks[b]).trip_id].destinations
        /\ \A b \in 1..Len(gb_last.blocks) :
              \A i \in 1..Len(gb_last.blocks[b]) :
                  gb_last.blocks[b][i].clone_with_suffix # 0 =>
                      gb_last.node[gb_last.blocks[b][i].trip_id].destinations =
                          node[gb_last.blocks[b][i].trip_id].destinations

\* A split gave two blocks that end in different trips, and the trunk
\* copy at the head of each carries the destinations of its end.
C23_Witness ==
    /\ gb_last.found
    /\ gb_last.exc = NoExc
    /\ Len(find_forks(node, gb_last.visited)) = 1
    /\ Len(gb_last.blocks) = 2
    /\ Last(gb_last.blocks[1]).trip_id # Last(gb_last.blocks[2]).trip_id
    /\ gb_last.blocks[2][1].clone_with_suffix = 2
    /\ gb_last.blocks[1][1].destinations # gb_last.blocks[2][1].destinations

\* ---- C24 -------------------------------------------------------------
\* C24: after fix_link_consistency every id in a next or previous list is
\* a key of nodes, and b is in a.next if and only if a is in b.previous.
C24_LinksClosedAndSymmetric ==
    gb_pc = "fixed" =>
        /\ \A a \in DOMAIN node :
              Range(node[a].next) \cup Range(node[a].previous) \subseteq DOMAIN node
        /\ \A a, b \in DOMAIN node :
              b \in Range(node[a].next) <=> a \in Range(node[b].previous)

\* The table had a link to a trip that is missing and a link without its
\* reverse, which was added by the fix.
C24_Witness ==
    /\ gb_pc = "fixed"
    /\ \E a \in DOMAIN node :
          0 \in Range(gb_last.node[a].next) \cup Range(gb_last.node[a].previous)
    /\ \E a, b \in DOMAIN node :
          /\ b \in Range(gb_last.node[a].next)
          /\ a \notin Range(gb_last.node[b].previous)
          /\ a \in Range(node[b].previous)

\* ---- C25 -------------------------------------------------------------
\* C25: on closed and symmetric links find_all_linked_nodes(root) raises
\* nothing, returns exactly the component of root and has removed exactly
\* the trips of that component from to_process.
C25_LinkedNodesAreTheComponent ==
    gb_last.root # 0 =>
        /\ ~(gb_last.exc # NoExc /\ ~gb_last.found)
        /\ Range(gb_last.visited) = RootComponent
        /\ Range(to_process) \cap RootComponent = {}

\* Two trips joined by two paths: find_all_linked_nodes ended with the
\* KeyError of to_process.pop, and with it execute.
C25_KeyErrorOnSecondPath ==
    /\ gb_last.root # 0
    /\ ~gb_last.found
    /\ gb_last.exc = "KeyError"
    /\ gb_pc = "KeyError"
    /\ ~IsTree(RootComponent)

\* ---- C29 -------------------------------------------------------------
\* The (trip id, suffix) pairs of the trunk copies the last solve() made
LastClones ==
    UNION {{<<gb_last.blocks[b][i].trip_id, gb_last.blocks[b][i].clone_with_suffix>> :
               i \in {j \in 1..Len(gb_last.blocks[b]) :
                         gb_last.blocks[b][j].clone_with_suffix # 0}} :
           b \in 1..Len(gb_last.blocks)}

\* C29: every clone id trip_id + ".k" differs from every trip id of the
\* table and from every other clone id, and _clone_trip never inserts an
\* id that is in the table.
C29_CloneIdsAreNew ==
    /\ gb_pc # "IntegrityError"
    /\ \A c \in LastClones :
          /\ CloneId(c[1], c[2]) \notin DOMAIN node
          /\ \A d \in LastClones : c # d => CloneId(c[1], c[2]) # CloneId(d[1], d[2])

(***************************************************************************)
(* BlockSolver: what the last solve_train call built                       *)
(***************************************************************************)
Called == bs_last.seed # NoTrain

\* expand_previous and expand_next of the seed both returned
Expanded == Called /\ bs_last.graph.exc = NoExc

LastVisited == Range(bs_last.graph.visited)

LastSplits == {t \in LastVisited : Len(bs_last.graph.next[t]) > 1}

LastMerges == {t \in LastVisited : Len(bs_last.graph.prev[t]) > 1}

\* self.blocks[t] of the solver of group i
BlocksOf(i, t) == ListAt(solver[i].blocks, t)

\* The trains add_train stores
Stored(t) == ~(feed[t].is_first /\ feed[t].is_last)

\* create_gtfs got past every solver.solve()
AllSolved == main_pc \in {"export", "done"}

\* ---- C3 --------------------------------------------------------------
\* C3: a solve_train call whose expanded component has more than one fork
\* node (more than one next, or more than one prev), or has both a split
\* and a merge, raises BlockError and appends no block number to any
\* train of the component.
C3_ForkedComponentRaises ==
    (/\ Expanded
     /\ \/ Cardinality(LastSplits \cup LastMerges) > 1
        \/ (LastSplits # {} /\ LastMerges # {}))
    => /\ bs_last.exc = "BlockError"
       /\ \A t \in LastVisited : BlocksOf(bs_last.group, t) = <<>>

\* A component with one split and one merge was given block numbers.
C3_SplitAndMergeSolved ==
    /\ Expanded
    /\ bs_last.exc = NoExc
    /\ Cardinality(LastSplits) = 1
    /\ Cardinality(LastMerges) = 1
    /\ \A t \in LastVisited : BlocksOf(bs_last.group, t) # <<>>

\* ---- C5 --------------------------------------------------------------
\* C5: when solve_train raises BlockError for a group, the run goes on:
\* create_gtfs is still solving the remaining groups or exporting, and
\* is not left by the exception.
C5_RunContinuesAfterBlockError ==
    (Called /\ bs_last.exc = "BlockError") => main_pc \in {"solve", "export", "done"}

\* The first group raised; the second still holds its trains, unsolved,
\* and nothing was exported.
C5_RunAborted ==
    /\ main_pc = "BlockError"
    /\ bs_last.group = 1
    /\ solver[2].trains_by_id # <<>>
    /\ exported = <<>>

\* ---- C6 --------------------------------------------------------------
\* C6 as stated: once every solve() has returned, every stored train has
\* at least one block number.
C6_EveryStoredTrainHasBlock ==
    AllSolved =>
        \A t \in TrainIds :
            Stored(t) => BlocksOf(GroupIndex(feed[t].group), t) # <<>>

\* C6: a solve_train call that returns gives at least one block number to
\* every train of the component when the component has two trains or
\* more, and none to a train expanded alone; once every solve() has
\* returned, every stored train was in one such call.
C6_ComponentTrainsHaveBlocks ==
    /\ (Called /\ bs_last.exc = NoExc) =>
           \A t \in LastVisited :
               BlocksOf(bs_last.group, t) # <<>> <=> Len(bs_last.graph.visited) >= 2
    /\ AllSolved => \A t \in TrainIds : Stored(t) => node_count[t] = 1

\* Every solve() returned, a train got a block and a stored one got none.
C6_Witness ==
    /\ main_pc = "done"
    /\ \E t, u \in TrainIds :
          /\ exported[t] # <<>>
          /\ Stored(u)
          /\ exported[u] = <<>>

\* ---- C7 --------------------------------------------------------------
\* C7: over a run no train becomes a graph node more than once, and a
\* train that is no longer in trains_by_id has no node made for it.
C7_NodeAtMostOnce ==
    /\ \A t \in TrainIds : node_count[t] <= 1
    /\ Called =>
          \A t \in LastVisited :
              bs_last.exc = NoExc => t \notin Range(solver[bs_last.group].trains_by_id)

\* Two components were solved one after the other, each train once.
C7_Witness ==
    /\ main_pc = "done"
    /\ \E t, u \in TrainIds :
          /\ exported[t] # <<>>
          /\ exported[u] # <<>>
          /\ exported[t] # exported[u]
          /\ u \notin LastVisited
          /\ t \in LastVisited
    /\ \A t \in TrainIds : node_count[t] = 1

\* ---- C8 --------------------------------------------------------------
\* The trains in the index when the last solve_train call began
IndexBefore == Range(solver[bs_last.group].trains_by_id) \cup LastVisited

\* The trains of the index reached from the trains of S, each train
\* leading to its own previous and next trains
RECURSIVE Linked(_)
Linked(S) ==
    LET own(t) == Range(next_trains(solver[bs_last.group], feed[t]))
                    \cup Range(previous_trains(solver[bs_last.group], feed[t]))
        more == S \cup (UNION {own(t) : t \in S} \cap IndexBefore)
    IN  IF more = S THEN S ELSE Linked(more)

\* The links a -> b, between trains of comp, that a names in its next
\* trains or b in its previous trains
LinksAmong(comp) ==
    {l \in comp \X comp :
        \/ l[2] \in Range(next_trains(solver[bs_last.group], feed[l[1]]))
        \/ l[1] \in Range(previous_trains(solver[bs_last.group], feed[l[2]]))}

\* The trains reached from the trains of S over the links L, forwards
RECURSIVE After(_, _)
After(S, L) ==
    LET more == S \cup {l[2] : l \in {k \in L : k[1] \in S}}
    IN  IF more = S THEN S ELSE After(more, L)

\* A cycle of links of L, each followed forwards
Cycle(comp, L) ==
    \E t \in comp : t \in After({l[2] : l \in {k \in L : k[1] = t}}, L)

\* A cycle of links of L, followed either way: comp has more links than
\* a tree has
Loop(comp, L) == Cardinality(L) >= Cardinality(comp)

\* C8: a solve_train call whose seed is linked to a cycle of links ends in
\* BlockError and gives no block number; a call that returns has built a
\* node for every train linked to the seed.
C8_CycleRaises ==
    Called =>
        LET comp == Linked({bs_last.seed})
            L == LinksAmong(comp)
        IN  /\ (Cycle(comp, L) \/ Loop(comp, L)) =>
                  /\ bs_last.exc = "BlockError"
                  /\ \A t \in IndexBefore : BlocksOf(bs_last.group, t) = <<>>
            /\ bs_last.exc = NoExc => LastVisited = comp

\* A cycle of three trains or more was met and BlockError raised.
C8_Witness ==
    /\ Called
    /\ bs_last.graph.exc = "BlockError"
    /\ Cardinality(LastVisited) >= 3
    /\ LET comp == Linked({bs_last.seed})
           L == LinksAmong(comp)
       IN  /\ Cycle(comp, L)
           /\ \A l \in L : l[1] # l[2] /\ <<l[2], l[1]>> \notin L

\* ---- C9 --------------------------------------------------------------
\* Group "G" holds trains 1 and 2 only: 1 names 2 as its next train, 2
\* names 1 as its previous train and no next train.
TwoTrainScenario ==
    /\ {t \in TrainIds : feed[t].group = "G"} = {1, 2}
    /\ feed[1].next = SomeList(<<2>>)
    /\ ~feed[1].is_last
    /\ Range(feed[1].prev[1]) \cap {1, 2} = {}
    /\ feed[2].prev = SomeList(<<1>>)
    /\ feed[2].next = SomeList(<<>>)
    /\ ~feed[2].is_first

\* The block numbers a solver has given out
NumbersOf(i) == UNION {Range(solver[i].blocks[t]) : t \in DOMAIN solver[i].blocks}

\* C9 as stated: in the two-train scenario get_block returns ["G.0"] for
\* each of the two trains.
C9_FirstBlockIsZero ==
    (main_pc = "done" /\ TwoTrainScenario) =>
        /\ exported[1] = << <<"G", 0>> >>
        /\ exported[2] = << <<"G", 0>> >>

\* C9: in the two-train scenario get_block returns ["G.1"] for each of the
\* two trains; the blocks of a group are numbered 1, 2, 3, ... in the
\* order they are found.
C9_FirstBlockIsOne ==
    /\ (main_pc = "done" /\ TwoTrainScenario) =>
          /\ exported[1] = << <<"G", 1>> >>
          /\ exported[2] = << <<"G", 1>> >>
    /\ main_pc # "load" /\ feed # <<>> =>
          \A i \in 1..Len(Groups) : NumbersOf(i) = 1..(solver[i].block_id - 1)

\* The two-train scenario was solved and exported.
C9_Witness ==
    /\ main_pc = "done"
    /\ TwoTrainScenario

\* ---- C26 -------------------------------------------------------------
\* C26: every train that is in trains_by_id and has more than one
\* timetable entry is listed under its first-stop signature in
\* trains_by_first_sta and under its last-stop signature in
\* trains_by_last_sta, whatever add_train and drop_train calls were made.
C26_StoredTrainsAreIndexed ==
    \A i \in DOMAIN solver :
        \A t \in Range(solver[i].trains_by_id) :
            feed[t].long =>
                /\ t \in Range(ListAt(solver[i].trains_by_first_sta, feed[t].first_sta))
                /\ t \in Range(ListAt(solver[i].trains_by_last_sta, feed[t].last_sta))

\* ---- C27 -------------------------------------------------------------
\* The sets of trains that share a block number of the solver s
SharedBlocks(s) ==
    {{t \in DOMAIN s.blocks : b \in Range(s.blocks[t])} : b \in 1..(s.block_id - 1)}
        \ {{}}

\* The solvers after add_train of the trains of the feed in the given
\* order and solve() of each
SolvedInOrder(order) ==
    LET added == AddAll([i \in 1..Len(Groups) |-> NewSolver(Groups[i])],
                        [k \in 1..Len(order) |-> feed[order[k]]])
    IN  [i \in 1..Len(Groups) |-> solve(feed, added[i])]

\* C27: the trains that share a block after solve() are the same for
\* every order in which the trains of the feed were added: whenever the
\* run has solved every group and solve() also returns for the trains
\* added in another order, both give the same sets of trains per block.
C27_BlocksIndependentOfOrder ==
    main_pc = "done" =>
        \A order \in Perms(TrainIds) :
            \A i \in 1..Len(Groups) :
                \E r \in {SolvedInOrder(order)[i]} :
                    r.exc = NoExc => SharedBlocks(r.solver) = SharedBlocks(solver[i])

\* ---- C28 -------------------------------------------------------------
\* C28: the loop of solve() has a decreasing measure. Every iteration,
\* i.e. every solve_train call, either raises BlockError, which leaves
\* solve(), or removes the seed from trains_by_id and adds no train, so
\* that trains_by_id gets shorter; and within one call no train gets more
\* than one BlockNode.
C28_SolveTerminates ==
    /\ [][(main_pc = "solve" /\ solver[cur].trains_by_id # <<>>) =>
             \/ main_pc' = "BlockError"
             \/ /\ Head(solver[cur].trains_by_id) \notin Range(solver'[cur].trains_by_id)
                /\ Len(solver'[cur].trains_by_id) < Len(solver[cur].trains_by_id)
                /\ main_pc' = "solve"]_vars
    /\ [](\A t \in DOMAIN bs_last.graph.created : bs_last.graph.created[t] <= 1)

\* Every solve() returned; the last solve_train call built nodes for three
\* trains or more and dropped them all, its seed included.
C28_Witness ==
    /\ main_pc = "done"
    /\ Called
    /\ bs_last.exc = NoExc
    /\ Len(bs_last.graph.visited) >= 3
    /\ LastVisited \cap Range(solver[bs_last.group].trains_by_id) = {}
    /\ \A t \in LastVisited : bs_last.graph.created[t] = 1

\* ---- C11 -------------------------------------------------------------
\* The stop times of the trip: arrival <= departure at each stop, and an
\* arrival is not before the departure of the stop stored before it.
TimesInOrder ==
    \A i \in 1..Len(stop_times) :
        /\ stop_times[i].arrival <= stop_times[i].departure
        /\ i > 1 => stop_times[i].arrival >= stop_times[i - 1].departure

\* C11: the stop_times load_train_timetable stores for a trip, in
\* stop_sequence order, have arrival <= departure at each stop and
\* arrival >= the departure of the stop stored before.
C11_StoredTimesInOrder == load_pc = "run" => TimesInOrder

\* ---- C12 -------------------------------------------------------------
\* C12: every StopTime ODPTProvider.trips makes has departure >= its own
\* arrival and arrival >= the departure of the stop before it, with and
\* without odpt:isMidnight.
C12_BusTimesInOrder ==
    \A i \in 1..Len(stop_times) :
        /\ stop_times[i].departure >= stop_times[i].arrival
        /\ i > 1 => stop_times[i].arrival >= stop_times[i - 1].departure

\* ---- C13 -------------------------------------------------------------
\* The entries of the trip consumed so far that have a time
TimedEntries == SelectSeq(tt, LAMBDA e : e.a # NoTime \/ e.d # NoTime)

\* C13: an entry with neither time is left out and the conversion goes
\* on: no exception ends it, the trip has one stop time for each of its
\* other entries, and an entry with one time gets both times from it.
C13_UntimedEntrySkipped ==
    /\ load_pc = "run"
    /\ Len(stop_times) = Len(TimedEntries)
    /\ \A i \in 1..Len(TimedEntries) :
          (TimedEntries[i].a = NoTime \/ TimedEntries[i].d = NoTime) =>
              LET times == get_arr_dep_times([arrivalTime |-> TimedEntries[i].a,
                                              departureTime |-> TimedEntries[i].d])
              IN  times[1] = times[2]

\* An entry without times ended the conversion of the feed before its
\* last trip.
C13_ConversionAborted ==
    /\ load_pc = "InvalidData"
    /\ trip_no < MaxLoadTrips
    /\ Last(tt).a = NoTime /\ Last(tt).d = NoTime

(***************************************************************************)
(* CalendarHandler                                                         *)
(***************************************************************************)
\* export has run
CalExported == trip_i = -1

\* The calendars of the rows export saved for a route and a date
RowsFor(r, d) ==
    {x.service_id[2] : x \in {x \in rows : x.service_id[1] = r /\ x.date = d}}

\* The specific calendars a route uses that list a date
SpecificUsedOn(r, d) ==
    {c \in used[r] : c \notin built_ins /\ d \in DOMAIN special /\ c \in special[d]}

\* The priority list of the effective weekday of a date: the holiday list
\* on a holiday, else the list of its weekday
EffectivePriority(d) ==
    IF d \in holidays THEN <<"Holiday", "SaturdayHoliday", "Everyday">>
    ELSE built_ins_priority[Weekday(d) + 1]

\* ---- C14 -------------------------------------------------------------
\* C14: for a route and a date that no specific calendar used by the
\* route lists, export emits at most one service: the first name of the
\* priority list of the date's effective weekday that the route uses.
C14_FirstOfPriority ==
    CalExported =>
        \A r \in DOMAIN used, d \in Dates :
            SpecificUsedOn(r, d) = {} =>
                LET p == EffectivePriority(d)
                    hits == {i \in 1..Len(p) : p[i] \in used[r]}
                IN  /\ Cardinality(RowsFor(r, d)) <= 1
                    /\ hits = {} => RowsFor(r, d) = {}
                    /\ hits # {} =>
                          RowsFor(r, d) = {p[CHOOSE i \in hits : \A j \in hits : i <= j]}

\* A route using Saturday and SaturdayHoliday got SaturdayHoliday alone on
\* a holiday that is a Tuesday.
C14_Witness ==
    /\ CalExported
    /\ start = 1
    /\ 1 \in holidays
    /\ \E r \in DOMAIN used :
          /\ used[r] = {"Saturday", "SaturdayHoliday"}
          /\ RowsFor(r, 1) = {"SaturdayHoliday"}

\* ---- C15 -------------------------------------------------------------
\* C15: for a route and a date that some specific calendar used by the
\* route lists, export emits exactly the specific calendars the route
\* uses that list the date, and no built-in calendar.
C15_SpecificOverrides ==
    CalExported =>
        \A r \in DOMAIN used, d \in Dates :
            SpecificUsedOn(r, d) # {} =>
                /\ RowsFor(r, d) = SpecificUsedOn(r, d)
                /\ RowsFor(r, d) \cap built_ins = {}

\* A route uses a specific calendar listing a date and a built-in calendar
\* that is active on the other dates.
C15_Witness ==
    /\ CalExported
    /\ \E r \in DOMAIN used, d \in Dates :
          /\ SpecificUsedOn(r, d) # {}
          /\ "Everyday" \in used[r]
          /\ RowsFor(r, d) = SpecificUsedOn(r, d)

\* ---- C16 -------------------------------------------------------------
\* C16 as stated: export emits at most one row for a route and a date.
C16_OneRowPerRouteAndDate ==
    CalExported =>
        \A r \in DOMAIN used, d \in Dates : Cardinality(RowsFor(r, d)) <= 1

\* C16: export emits more than one row for a route and a date only when
\* several specific calendars used by the route list the date, and then
\* one row for each of them.
C16_SeveralRowsOnlyForSpecific ==
    CalExported =>
        \A r \in DOMAIN used, d \in Dates :
            \/ Cardinality(RowsFor(r, d)) <= 1
            \/ /\ Cardinality(SpecificUsedOn(r, d)) > 1
               /\ Cardinality(RowsFor(r, d)) = Cardinality(SpecificUsedOn(r, d))

\* Two specific calendars of a route are both active on a date.
C16_Witness ==
    /\ CalExported
    /\ \E r \in DOMAIN used, d \in Dates : RowsFor(r, d) = {"SpecificA", "SpecificB"}

\* ---- C17 -------------------------------------------------------------
\* C17: every service id use returned has at least one calendar_dates
\* row after export.
C17_EveryUsedServiceIsActive ==
    CalExported =>
        \A r \in DOMAIN used : \A c \in used[r] :
            \E x \in rows : x.service_id = ServiceId(r, c)

\* A route uses Weekday, SaturdayHoliday and Everyday: Everyday is active
\* on no date.
C17_EverydayNeverActive ==
    /\ CalExported
    /\ \E r \in DOMAIN used :
          /\ used[r] = {"Weekday", "SaturdayHoliday", "Everyday"}
          /\ \A x \in rows : x.service_id # ServiceId(r, "Everyday")

\* ---- C18 -------------------------------------------------------------
\* export_trip takes a trip whose calendar is not valid
InvalidCalendarStep ==
    /\ trip_i >= 0
    /\ trip_i' = trip_i + 1
    /\ trip_feed[trip_i + 1].calendar \notin valid

C30_CleanupRemovesTripsAndTimes ==
    [][(trip_i = -1 /\ trip_i' = -3) =>
          /\ exported_trips' = {t \in exported_trips : ServiceOf(t) \in calendars_exported}
          /\ \A r \in stop_times_txt' : r[1] \notin exported_trips \ exported_trips']_vars

\* cleanup_trips_without_service has removed a trip from trips.txt.
C30_TripRemoved ==
    /\ trip_i = -3
    /\ \E r \in stop_times_txt : r[1] \notin exported_trips

(***************************************************************************)
(* SimplifyBlocks                                                          *)
(***************************************************************************)
\* ---- C19 -------------------------------------------------------------
\* C19: SimplifyBlocks is idempotent: an execute made after another one
\* changes no trip (block_id included) and no stop_time.
C19_SecondRunChangesNothing ==
    [][sb_runs >= 1 =>
          /\ sb_trips' = sb_trips
          /\ sb_stop_times' = sb_stop_times]_vars

\* A second execute has run on tables in which the first one had merged
\* trips.
C19_Witness ==
    /\ sb_runs = 2
    /\ \E k \in DOMAIN sb_trips : Len(sb_stop_times[k]) > 2

\* ---- C20 -------------------------------------------------------------
\* Two trips of one block with the same route, calendar, headsign and
\* short name
SameKind(k, o) ==
    /\ k # o
    /\ sb_trips[k].block_id # NULL
    /\ sb_trips[k].block_id = sb_trips[o].block_id
    /\ sb_trips[k].route_id = sb_trips[o].route_id
    /\ sb_trips[k].calendar_id = sb_trips[o].calendar_id
    /\ sb_trips[k].headsign = sb_trips[o].headsign
    /\ sb_trips[k].short_name = sb_trips[o].short_name

\* No trip of the block of k and o starts between them
Consecutive(k, o) ==
    \A x \in DOMAIN sb_trips \ {k, o} :
        sb_trips[x].block_id = sb_trips[k].block_id =>
            ~ /\ first_time(sb_stop_times, k) < first_time(sb_stop_times, x)
              /\ first_time(sb_stop_times, x) < first_time(sb_stop_times, o)

\* C20 as stated: after an execute no block has two trips with the same
\* route, calendar, headsign and short name.
C20_NoTwoTripsOfOneKind ==
    sb_runs >= 1 => \A k, o \in DOMAIN sb_trips : ~SameKind(k, o)

\* C20: after an execute, in a block that find_blocks_to_merge selected
\* no two trips that are consecutive by first stop time have the same
\* route; trips of one kind stay apart only when another trip of the
\* block runs between them or the block was not selected.
C20_NoConsecutiveTripsOfOneRoute ==
    sb_runs >= 1 =>
        \A k, o \in DOMAIN sb_trips :
            /\ k # o
            /\ sb_trips[k].block_id \in Range(sb_blocks)
            /\ sb_trips[k].block_id = sb_trips[o].block_id
            /\ sb_trips[k].route_id = sb_trips[o].route_id
            /\ first_time(sb_stop_times, k) <= first_time(sb_stop_times, o)
            => ~Consecutive(k, o)

\* An execute merged two trips of a selected block, which keeps the
\* merged trip and a trip of another route.
C20_Witness ==
    /\ sb_runs = 1
    /\ \E k, o \in DOMAIN sb_trips :
          /\ k # o
          /\ sb_trips[k].block_id \in Range(sb_blocks)
          /\ sb_trips[k].block_id = sb_trips[o].block_id
          /\ sb_trips[k].route_id # sb_trips[o].route_id
          /\ Len(sb_stop_times[k]) > 2

\* ---- C21 -------------------------------------------------------------
\* An execute step drops trip k and puts its stop_times into trip o
MergedInto(k, o) ==
    /\ k \in DOMAIN sb_trips \ DOMAIN sb_trips'
    /\ o \in DOMAIN sb_trips'
    /\ \E x \in Range(sb_stop_times[k]), y \in Range(sb_stop_times'[o]) :
          x.departure_time = y.departure_time

\* C21: two trips are merged only if they are in one block, have the same
\* route and the same calendar, and either the same short name and
\* headsign or an allow-listed route.
C21_MergedTripsAreOfOneKind ==
    [][\A k, o \in DOMAIN sb_trips :
          MergedInto(k, o) =>
              /\ sb_trips[k].block_id = sb_trips[o].block_id
              /\ sb_trips[k].route_id = sb_trips[o].route_id
              /\ sb_trips[k].calendar_id = sb_trips[o].calendar_id
              /\ \/ /\ sb_trips[k].short_name = sb_trips[o].short_name
                    /\ sb_trips[k].headsign = sb_trips[o].headsign
                 \/ sb_trips[k].route_id \in {"JR-East.NaritaExpress", "JR-East.Musashino"}]_vars

\* ---- C22 -------------------------------------------------------------
\* The positions of merge_in at which a run of stop-times with one stem
\* starts
RunStarts ==
    {i \in 1..Len(merge_in) :
        i = 1 \/ merge_in[i].stop_id[2] # merge_in[i - 1].stop_id[2]}

\* C22: the stop-times yielded carry the base trip id and the sequence
\* numbers 0, 1, ...; no two consecutive ones have the same stem; the j-th
\* one stands for the j-th maximal run of input stop-times with one stem,
\* with the arrival of the first and everything else of the last of the
\* run.
C22_OneStopTimePerRun ==
    merge_out # NotCalled =>
        /\ Len(merge_out) = Cardinality(RunStarts)
        /\ \A j \in 1..Len(merge_out) :
              LET first == CHOOSE i \in RunStarts :
                               Cardinality({s \in RunStarts : s <= i}) = j
                  last == CHOOSE i \in first..Len(merge_in) :
                              /\ \A x \in (first + 1)..i : x \notin RunStarts
                              /\ (i = Len(merge_in) \/ i + 1 \in RunStarts)
              IN  /\ merge_out[j] = [merge_in[last] EXCEPT
                                        !.trip_id = merge_trip_id,
                                        !.stop_sequence = j - 1,
                                        !.arrival_time = merge_in[first].arrival_time]
                  /\ j > 1 => merge_out[j].stop_id[2] # merge_out[j - 1].stop_id[2]

\* Stop-times of two trips with two stop ids of one stem were collapsed;
\* at least two input stop-times were absorbed and at least two stop-times
\* were yielded.
C22_Witness ==
    /\ merge_out # NotCalled
    /\ Len(merge_in) > Len(merge_out) + 1
    /\ Len(merge_out) > 1
    /\ \E i \in 2..Len(merge_in) :
          /\ i \notin RunStarts
          /\ merge_in[i].stop_id # merge_in[i - 1].stop_id
          /\ merge_in[i].trip_id # merge_in[i - 1].trip_id

\* ---- C10 -------------------------------------------------------------
\* Indices of the timetable entries that have a time.
TimedIdx == {i \in 1..Len(timetable) :
                timetable[i].arrival >= 0 /\ timetable[i].departure >= 0}

IsDayMultiple(x) == x >= 0 /\ x % 86400 = 0

\* C10: over the entries of a train that have a time, taken in order,
\* arrival <= departure at each entry and each arrival is >= the departure
\* of the previous such entry; every stored time is the parsed input time
\* plus a non-negative multiple of 86400.
C10_TimesMonotonic ==
    /\ \A i \in TimedIdx : timetable[i].arrival <= timetable[i].departure
    /\ \A i \in TimedIdx, j \in TimedIdx :
         i < j => timetable[i].departure <= timetable[j].arrival
    /\ \A i \in 1..Len(timetable) :
         LET raw == get_arr_dep_times(api_tt[i])
         IN  /\ IsDayMultiple(timetable[i].arrival - raw[1])
             /\ IsDayMultiple(timetable[i].departure - raw[2])

\* A train whose third entry needed two days added, after an entry without
\* any time in between or not.
C10_Witness ==
    /\ Len(timetable) = 3
    /\ timetable[3].arrival - get_arr_dep_times(api_tt[3])[1] = 2 * 86400
    /\ timetable[2].arrival - get_arr_dep_times(api_tt[2])[1] = 86400

\* An entry without a time between two entries with one.
C10_WitnessSkip ==
    /\ Len(timetable) = 3
    /\ timetable[2].arrival < 0
    /\ 1 \in TimedIdx /\ 3 \in TimedIdx
    /\ timetable[3].arrival > get_arr_dep_times(api_tt[3])[1]

====
